---- MODULE Spec2Model ----
(***************************************************************************)
(* State-machine model of the mbsync synchronization engine (src/sync.c).  *)
(*                                                                         *)
(* One engine process drives two mailboxes (master M, slave S) through     *)
(* select -> load -> sync -> close.  Driver operations are asynchronous:   *)
(* each call puts an operation into `pending`, and the event loop later    *)
(* delivers its completion to the callback the engine registered.  Every   *)
(* callback is one atomic action; the disk images a kill in the middle of  *)
(* a callback can leave behind are collected in `crashDisks`.              *)
(*                                                                         *)
(* Bit masks of the C code are sets of bit positions; two-element C arrays *)
(* indexed by M/S are functions on {0,1}.                                  *)
(***************************************************************************)
EXTENDS Integers, Sequences, FiniteSets, TLC

VARIABLES
    chan,        \* channel configuration (channel_conf_t + store_conf_t)
    mbox,        \* the two mailboxes as the drivers hold them
    disk,        \* the sync-state files: state, state.new, state.journal
    lock,        \* the state.lock file, its inodes and fcntl owners
    procs,       \* lock-protocol position of concurrent runs
    svars,       \* sync_vars_t of the running engine
    srecs,       \* the sync record list svars->srecs
    ctx,         \* store_t of both sides (loaded messages, opts, ...)
    pending,     \* driver operations issued and not yet completed
    crashDisks,  \* disk images a kill inside the last callback can leave
    run          \* bookkeeping of the current run and of the run sequence

vars == <<chan, mbox, disk, lock, procs, svars, srecs, ctx, pending, crashDisks, run>>

(***************************************************************************)
(* Bounds of the model.                                                    *)
(***************************************************************************)
MaxRuns == 3
MaxMsgs == 1
MaxProcs == 2
MaxInodes == 3

(***************************************************************************)
(* Program constants (bit positions of the C masks).                       *)
(***************************************************************************)
M == 0
S == 1
Sides == {M, S}

F_DRAFT == 0
F_FLAGGED == 1
F_ANSWERED == 2
F_SEEN == 3
F_DELETED == 4
NUM_FLAGS == 5

M_RECENT == 0
M_DEAD == 1
M_FLAGS == 2

S_DEAD == 0
S_DONE == 1
S_DEL(ms) == 2 + ms
S_EXPIRED == 4
S_EXPIRE == 5
S_NEXPIRE == 6
S_EXP_S == 7
S_FIND == 8

ST_LOADED == 0
ST_SENT_NEW == 1
ST_FOUND_NEW == 2
ST_SENT_FLAGS == 3
ST_SENT_TRASH == 4
ST_CLOSED == 5
ST_SENT_CANCEL == 6
ST_CANCELED == 7
ST_SELECTED == 8
ST_DID_EXPUNGE == 16

OP_NEW == 0
OP_RENEW == 1
OP_DELETE == 2
OP_FLAGS == 3
OP_EXPUNGE == 4
OP_CREATE == 5

OPEN_OLD == 0
OPEN_NEW == 1
OPEN_FLAGS == 2
OPEN_SIZE == 3
OPEN_EXPUNGE == 5
OPEN_SETFLAGS == 6
OPEN_APPEND == 7
OPEN_FIND == 8
OPEN_TIME == 9

SYNC_FAIL == 0
SYNC_BAD(ms) == 2 + ms
SYNC_OK == {}

INT_MAX == 2147483647

DRV_OK == "DRV_OK"
DRV_MSG_BAD == "DRV_MSG_BAD"
DRV_BOX_BAD == "DRV_BOX_BAD"
DRV_CANCELED == "DRV_CANCELED"

SYNC_OK_STS == "SYNC_OK"
SYNC_FAIL_STS == "SYNC_FAIL"
SYNC_NOGOOD == "SYNC_NOGOOD"
SYNC_CANCELED == "SYNC_CANCELED"

JOURNAL_VERSION == "2"

Pair(a, b) == [t \in Sides |-> IF t = M THEN a ELSE b]

(***************************************************************************)
(* Flag conversions.                                                       *)
(***************************************************************************)
Flags == <<"D", "F", "R", "S", "T">>

RECURSIVE parse_flags_from(_, _, _)
parse_flags_from(buf, i, d) ==
    IF i >= NUM_FLAGS THEN {}
    ELSE IF d <= Len(buf) /\ buf[d] = Flags[i + 1]
         THEN {i} \cup parse_flags_from(buf, i + 1, d + 1)
         ELSE parse_flags_from(buf, i + 1, d)

parse_flags(buf) == parse_flags_from(buf, 0, 1)

RECURSIVE make_flags_from(_, _)
make_flags_from(flags, i) ==
    IF i >= NUM_FLAGS THEN <<>>
    ELSE (IF i \in flags THEN <<Flags[i + 1]>> ELSE <<>>) \o make_flags_from(flags, i + 1)

make_flags(flags) == make_flags_from(flags, 0)

\* printf("%u", flags): the mask as a number
RECURSIVE FlagsToInt(_)
FlagsToInt(flags) ==
    IF flags = {} THEN 0
    ELSE LET b == CHOOSE x \in flags : TRUE
         IN 2 ^ b + FlagsToInt(flags \ {b})

\* srec->flags = t3: the number as an unsigned char mask
IntToFlags(n) == {b \in 0..7 : (n \div (2 ^ b)) % 2 = 1}

(***************************************************************************)
(* Files of the sync state.                                                *)
(***************************************************************************)
NoFile == [ex |-> FALSE, full |-> FALSE, hdr |-> <<>>, ents |-> <<>>]

NoJournal == [ex |-> FALSE, lines |-> <<>>]

NoDisk == [state |-> NoFile, new |-> NoFile, journal |-> NoJournal]

VersionLine == <<JOURNAL_VERSION, 0, 0, 0>>

NewSrec(m, s) ==
    [uid |-> Pair(m, s), msg |-> Pair(0, 0), status |-> {}, flags |-> {},
     aflags |-> Pair({}, {}), dflags |-> Pair({}, {}), tuid |-> 0]

\* one "UIDm UIDs [X]FLAGS" line of the state file
ReadEntry(e) ==
    LET fbuf == e[3]
        x    == Len(fbuf) > 0 /\ fbuf[1] = "X"
        s    == IF x THEN Tail(fbuf) ELSE fbuf
    IN [NewSrec(e[1], e[2]) EXCEPT
            !.status = IF x THEN {S_EXPIRE, S_EXPIRED} ELSE {},
            !.flags = parse_flags(s)]

RECURSIVE ReadEntries(_)
ReadEntries(ents) ==
    IF ents = <<>> THEN <<>>
    ELSE <<ReadEntry(Head(ents))>> \o ReadEntries(Tail(ents))

\* a variant that does not take smaxxuid from the header
ReadState_fresh(f) ==
    [err |-> FALSE, srecs |-> IF f.ex THEN ReadEntries(f.ents) ELSE <<>>,
     uidval |-> IF f.ex THEN Pair(f.hdr[1], f.hdr[3]) ELSE Pair(-1, -1),
     maxuid |-> IF f.ex THEN Pair(f.hdr[2], f.hdr[5]) ELSE Pair(0, 0),
     smaxxuid |-> 0, newuid |-> Pair(0, 0), cur |-> 0, line |-> 0]

\* what box_selected holds after reading the state file (or finding none)
ReadState(f) ==
    IF f.ex /\ (Len(f.hdr) # 5 \/ \E k \in 1..Len(f.ents) : Len(f.ents[k]) < 3)
    THEN \* incomplete or invalid header, incomplete or invalid entry
         [err |-> TRUE, srecs |-> <<>>,
          uidval |-> Pair(-1, -1), maxuid |-> Pair(0, 0),
          smaxxuid |-> 0, newuid |-> Pair(0, 0), cur |-> 0, line |-> 0]
    ELSE IF f.ex
    THEN [err |-> FALSE, srecs |-> ReadEntries(f.ents),
          uidval |-> Pair(f.hdr[1], f.hdr[3]), maxuid |-> Pair(f.hdr[2], f.hdr[5]),
          smaxxuid |-> f.hdr[4], newuid |-> Pair(0, 0), cur |-> 0, line |-> 0]
    ELSE [err |-> FALSE, srecs |-> <<>>,
          uidval |-> Pair(-1, -1), maxuid |-> Pair(0, 0),
          smaxxuid |-> 0, newuid |-> Pair(0, 0), cur |-> 0, line |-> 0]

MinOf(set) == CHOOSE x \in set : \A y \in set : x <= y

\* the record search of the journal replay: from the last record used to the
\* end of the list, then from the head up to it; 0 when no record matches
FindSrec(recs, cur, t1, t2) ==
    LET hit(i) == recs[i].uid[M] = t1 /\ recs[i].uid[S] = t2
        fwd == IF cur = 0 THEN {} ELSE {i \in cur..Len(recs) : hit(i)}
        bwd == {i \in 1..(IF cur = 0 THEN Len(recs) ELSE cur - 1) : hit(i)}
    IN IF fwd # {} THEN MinOf(fwd) ELSE IF bwd # {} THEN MinOf(bwd) ELSE 0

GlobalOps == {"(", ")", "{", "}", "|", "+"}

RecordOps == {"-", "#", "&", "<", ">", "*", "~", "\\", "/"}

\* one journal entry applied to the replay state R
ReplayLine(R, ln) ==
    LET op == ln[1]
        t1 == ln[2]
        t2 == ln[3]
        t3 == ln[4]
        i  == FindSrec(R.srecs, R.cur, t1, t2)
        r  == R.srecs[i]
        put(nr) == [R EXCEPT !.srecs[i] = nr, !.cur = i, !.line = @ + 1]
    IN IF op \notin GlobalOps \cup RecordOps THEN [R EXCEPT !.err = TRUE, !.line = @ + 1]
       ELSE IF op = "(" THEN [R EXCEPT !.maxuid[M] = t1, !.line = @ + 1]
       ELSE IF op = ")" THEN [R EXCEPT !.maxuid[S] = t1, !.line = @ + 1]
       ELSE IF op = "{" THEN [R EXCEPT !.newuid[M] = t1, !.line = @ + 1]
       ELSE IF op = "}" THEN [R EXCEPT !.newuid[S] = t1, !.line = @ + 1]
       ELSE IF op = "|" THEN [R EXCEPT !.uidval = Pair(t1, t2), !.line = @ + 1]
       ELSE IF op = "+"
            THEN [R EXCEPT !.srecs = Append(@, NewSrec(t1, t2)),
                           !.cur = Len(R.srecs) + 1, !.line = @ + 1]
       ELSE IF i = 0 THEN [R EXCEPT !.err = TRUE, !.line = @ + 1]
       ELSE IF op = "-" THEN put([r EXCEPT !.status = {S_DEAD}])
       ELSE IF op = "#" THEN put([r EXCEPT !.tuid = t3])
       ELSE IF op = "&" THEN put([r EXCEPT !.flags = {}, !.tuid = 0])
       ELSE IF op = "<" THEN put([r EXCEPT !.uid[M] = t3, !.tuid = 0])
       ELSE IF op = ">" THEN put([r EXCEPT !.uid[S] = t3, !.tuid = 0])
       ELSE IF op = "*" THEN put([r EXCEPT !.flags = IntToFlags(t3)])
       ELSE IF op = "~"
            THEN put([r EXCEPT !.status = IF t3 # 0 THEN @ \cup {S_EXPIRE} ELSE @ \ {S_EXPIRE}])
       ELSE IF op = "\\"
            THEN put([r EXCEPT !.status = IF S_EXPIRED \in @ THEN @ \cup {S_EXPIRE}
                                          ELSE @ \ {S_EXPIRE}])
       ELSE \* "/"
            IF S_EXPIRE \in r.status
            THEN [put([r EXCEPT !.status = @ \cup {S_EXPIRED}]) EXCEPT
                     !.smaxxuid = IF @ < r.uid[S] THEN r.uid[S] ELSE @]
            ELSE put([r EXCEPT !.status = @ \ {S_EXPIRED}])

RECURSIVE ReplayLines(_, _)
ReplayLines(R, lines) ==
    IF lines = <<>> \/ R.err THEN R
    ELSE ReplayLines(ReplayLine(R, Head(lines)), Tail(lines))

\* the journal is replayed only when state.new exists and the journal has a line
ReplayJournal(R, d) ==
    IF ~R.err /\ d.journal.ex /\ d.new.ex /\ d.journal.lines # <<>>
    THEN IF Head(d.journal.lines) # VersionLine
         THEN [R EXCEPT !.err = TRUE, !.line = 1]
         ELSE ReplayLines([R EXCEPT !.line = 1], Tail(d.journal.lines))
    ELSE R

\* the load procedure of box_selected: state file, then journal
LoadState(d) == ReplayJournal(ReadState(d.state), d)


(***************************************************************************)
(* The lock file state.lock: the inode the name refers to (0: no file),    *)
(* the process holding the fcntl write lock of each inode, and the number  *)
(* of descriptors open on each inode.                                      *)
(***************************************************************************)
Inodes == 1..MaxInodes

NoLock == [ino |-> 0, owner |-> [i \in Inodes |-> 0], refs |-> [i \in Inodes |-> 0]]

FreeInodes(lk) == {i \in Inodes : i # lk.ino /\ lk.refs[i] = 0}

\* open( lname, O_WRONLY|O_CREAT ): the descriptor's inode
LockFd(lk) == IF lk.ino # 0 THEN lk.ino ELSE MinOf(FreeInodes(lk))

LockOpen(lk) ==
    LET fd == LockFd(lk)
    IN [lk EXCEPT !.ino = fd, !.refs[fd] = @ + 1]

\* fcntl( lfd, F_SETLK ) succeeds unless another process holds the lock
LockFree(lk, fd, p) == lk.owner[fd] \in {0, p}

LockSetlk(lk, fd, p) == [lk EXCEPT !.owner[fd] = p]

\* unlink( lname )
LockUnlink(lk) == [lk EXCEPT !.ino = 0]

\* close( lfd ) drops the process's lock on the file
LockClose(lk, fd, p) ==
    [lk EXCEPT !.refs[fd] = @ - 1,
               !.owner[fd] = IF @ = p THEN 0 ELSE @]

EnginePid == 1

(***************************************************************************)
(* The engine.  A callback is a function on the bundle E of everything it  *)
(* can change: sv (svars), srecs, ctx, pend, disk, lock, run, tuid and     *)
(* cds, the disk images it leaves behind on its way.                       *)
(***************************************************************************)
InitSvars ==
    [state |-> Pair({}, {}), ref_count |-> 0, ret |-> {}, lfd |-> 0,
     nfp |-> FALSE, jfp |-> FALSE, freed |-> FALSE,
     new_total |-> Pair(0, 0), new_done |-> Pair(0, 0),
     flags_total |-> Pair(0, 0), flags_done |-> Pair(0, 0),
     trash_total |-> Pair(0, 0), trash_done |-> Pair(0, 0),
     maxuid |-> Pair(0, 0), uidval |-> Pair(-1, -1), newuid |-> Pair(0, 0),
     smaxxuid |-> 0, osrec |-> 0]

NoCtx == [msgs |-> <<>>, opts |-> {}, count |-> 0, uidnext |-> 0, uidvalidity |-> -1]

NoOp ==
    [op |-> "", t |-> 0, cb |-> "", aux |-> 0, srec |-> 0, uid |-> 0,
     af |-> {}, df |-> {}, lo |-> 0, hi |-> 0, excs |-> {}, nu |-> 0, tuid |-> 0,
     fl |-> {}]

\* a driver command.  An asynchronous driver queues it and invokes the
\* callback from the event loop; a synchronous driver carries it out and
\* invokes the callback before the call returns.  select and cancel are
\* always queued (sync_boxes and cancel_side queue them themselves).  Which
\* kind a driver is never changes, so it is read from the state.
RECURSIVE Callback(_, _, _, _), Effect(_, _), FetchedFlags(_, _), ReportedUid(_, _)
Issue(E, o) ==
    IF mbox[o.t].sync
    THEN Callback(E, Effect(E, o), o,
                  IF o.op = "fetch_msg" /\ \A k \in 1..Len(E.mbox[o.t].msgs) :
                                                E.mbox[o.t].msgs[k].uid # o.uid
                  THEN DRV_MSG_BAD ELSE DRV_OK)
    ELSE [E EXCEPT !.pend = @ \cup {o}]

SetState(E, t, b) == [E EXCEPT !.sv.state[t] = @ \cup {b}]

\* every change of the files passes here, so that the image before it is kept
SetDisk(E, d) == [E EXCEPT !.disk = d, !.cds = @ \cup {E.disk}]

\* Fprintf( svars->jfp, ... ): the journal is line buffered
Jprintf(E, ln) == SetDisk(E, [E.disk EXCEPT !.journal.lines = Append(@, ln)])

JRec(E, op, i, t3) == Jprintf(E, <<op, E.srecs[i].uid[M], E.srecs[i].uid[S], t3>>)

sync_deref(E) ==
    IF E.sv.ref_count = 1
    THEN [E EXCEPT !.sv.ref_count = 0, !.sv.freed = TRUE,
                   !.run.cbs = @ + 1, !.run.cbret = E.sv.ret, !.run.phase = "done"]
    ELSE [E EXCEPT !.sv.ref_count = @ - 1]

sync_bail3(E) == sync_deref(E)

sync_bail2(E) == sync_bail3(E)

sync_bail1(E) ==
    sync_bail2([E EXCEPT !.lock = LockClose(E.lock, E.sv.lfd, EnginePid)])

sync_bail(E) ==
    sync_bail1([E EXCEPT !.srecs = <<>>, !.lock = LockUnlink(E.lock),
                         !.run.teardowns = @ + 1])

cancel_done(E, t) ==
    LET E1 == SetState(E, t, ST_CANCELED)
    IN IF ST_CANCELED \in E1.sv.state[1 - t]
       THEN LET E2 == [E1 EXCEPT !.run.ended = "cancel"]
            IN IF E2.sv.lfd # 0
               THEN sync_bail([E2 EXCEPT !.sv.nfp = FALSE, !.sv.jfp = FALSE])
               ELSE sync_bail2(E2)
       ELSE E1

\* one iteration of the loop of cancel_sync
cancel_side(E, t) ==
    IF SYNC_BAD(t) \in E.sv.ret THEN cancel_done(E, t)
    ELSE IF ST_SENT_CANCEL \notin E.sv.state[t]
         THEN [SetState(E, t, ST_SENT_CANCEL) EXCEPT
                  !.run.cancels[t] = @ + 1,
                  !.pend = @ \cup {[NoOp EXCEPT !.op = "cancel", !.t = t]}]
         ELSE E

cancel_sync(E) ==
    LET other_state == E.sv.state[S]
        E1 == cancel_side(E, M)
    IN IF ST_CANCELED \in other_state THEN E1 ELSE cancel_side(E1, S)

\* cancel_store() calls back every pending command of the store with
\* DRV_CANCELED, which no callback acts upon; a pending cancel is dropped
store_bad(E, t) ==
    LET E1 == [E EXCEPT !.pend = {o \in @ : o.t # t},
                        !.sv.ret = @ \cup {SYNC_BAD(t)}]
    IN cancel_sync(E1)

check_cancel(E) ==
    (E.sv.state[M] \cup E.sv.state[S]) \cap {ST_SENT_CANCEL, ST_CANCELED} # {}

\* check_ret() returns nonzero
\* a variant that lets a command that failed for the whole mailbox through
check_ret_msg(E, sts) == sts = DRV_CANCELED \/ check_cancel(E)

check_ret(E, sts) ==
    sts = DRV_CANCELED \/ sts = DRV_BOX_BAD \/ check_cancel(E)

\* what check_ret() does before it returns nonzero
check_ret_bail(E, sts) ==
    IF sts = DRV_BOX_BAD
    THEN cancel_sync([E EXCEPT !.sv.ret = @ \cup {SYNC_FAIL}])
    ELSE E


\* the TUID scan left out
match_tuids_skipped(E, t) == E

RECURSIVE match_tuids_from(_, _, _, _)
match_tuids_from(E, t, i, ntmsg) ==
    IF i > Len(E.srecs) THEN E
    ELSE LET r    == E.srecs[i]
             msgs == E.ctx[t].msgs
             n    == Len(msgs)
             hit(k) == M_DEAD \notin msgs[k].status /\ msgs[k].tuid # 0
                       /\ msgs[k].tuid = r.tuid
             fwd  == IF ntmsg = 0 THEN {} ELSE {k \in ntmsg..n : hit(k)}
             bwd  == {k \in 1..(IF ntmsg = 0 THEN n ELSE ntmsg - 1) : hit(k)}
             k    == IF fwd # {} THEN MinOf(fwd) ELSE IF bwd # {} THEN MinOf(bwd) ELSE 0
         IN IF S_DEAD \in r.status \/ ~(r.uid[t] = -2 /\ r.tuid # 0)
            THEN match_tuids_from(E, t, i + 1, ntmsg)
            ELSE IF k = 0
            THEN match_tuids_from(
                     [JRec(E, "&", i, 0) EXCEPT
                         !.srecs[i].flags = {}, !.srecs[i].tuid = 0,
                         !.run.lost = @ \cup {[t |-> t, src |-> r.uid[1 - t],
                                                tuid |-> r.tuid]}],
                     t, i + 1, ntmsg)
            ELSE match_tuids_from(
                     [JRec(E, IF t = M THEN "<" ELSE ">", i, msgs[k].uid) EXCEPT
                         !.ctx[t].msgs[k].srec = i,
                         !.srecs[i].uid[t] = msgs[k].uid,
                         !.srecs[i].tuid = 0,
                         !.run.byTuid = @ \cup {<<t, r.uid[1 - t], msgs[k].uid>>}],
                     t, i + 1, IF k = n THEN 0 ELSE k + 1)

match_tuids(E, t) == match_tuids_from(E, t, 1, 0)

\* the side's message of the record is gone for good
Gone(E, r, t) ==
    r.uid[t] <= 0 \/ (S_DEL(t) \in r.status /\ ST_DID_EXPUNGE \in E.sv.state[t])

PurgeMinwuid(E) ==
    LET c == {i \in 1..Len(E.srecs) :
                 /\ S_DEAD \notin E.srecs[i].status
                 /\ ~(Gone(E, E.srecs[i], S)
                      /\ (Gone(E, E.srecs[i], M) \/ S_EXPIRED \in E.srecs[i].status))
                 /\ E.sv.smaxxuid < E.srecs[i].uid[S]}
    IN IF E.sv.smaxxuid # 0 /\ c # {}
       THEN LET m == MinOf({E.srecs[i].uid[M] : i \in c})
            IN IF m < INT_MAX THEN m ELSE INT_MAX
       ELSE INT_MAX

RECURSIVE purge_from(_, _, _)
purge_from(E, i, minwuid) ==
    IF i > Len(E.srecs) THEN E
    ELSE LET r == E.srecs[i]
         IN IF S_DEAD \in r.status THEN purge_from(E, i + 1, minwuid)
            ELSE IF Gone(E, r, S)
            THEN IF Gone(E, r, M)
                    \/ (S_EXPIRED \in r.status /\ E.sv.maxuid[M] >= r.uid[M]
                        /\ minwuid > r.uid[M])
                 THEN purge_from([JRec(E, "-", i, 0) EXCEPT !.srecs[i].status = {S_DEAD}],
                                 i + 1, minwuid)
                 ELSE IF r.uid[S] > 0
                 THEN purge_from([JRec(E, ">", i, 0) EXCEPT !.srecs[i].uid[S] = 0],
                                 i + 1, minwuid)
                 ELSE purge_from(E, i + 1, minwuid)
            ELSE IF r.uid[M] > 0 /\ S_DEL(M) \in r.status
                    /\ ST_DID_EXPUNGE \in E.sv.state[M]
            THEN purge_from([JRec(E, "<", i, 0) EXCEPT !.srecs[i].uid[M] = 0],
                            i + 1, minwuid)
            ELSE purge_from(E, i + 1, minwuid)

\* the lines of the new state file
RECURSIVE WriteEntries(_)
WriteEntries(recs) ==
    IF recs = <<>> THEN <<>>
    ELSE LET r == Head(recs)
         IN (IF S_DEAD \in r.status THEN <<>>
             ELSE << <<r.uid[M], r.uid[S],
                       (IF S_EXPIRED \in r.status THEN <<"X">> ELSE <<>>)
                       \o make_flags(r.flags)>> >>)
            \o WriteEntries(Tail(recs))

NewStateFile(E) ==
    [ex |-> TRUE, full |-> TRUE,
     hdr |-> <<E.sv.uidval[M], E.sv.maxuid[M], E.sv.uidval[S], E.sv.smaxxuid,
               E.sv.maxuid[S]>>,
     ents |-> WriteEntries(E.srecs)]

\* write state.new, close it, rename it to the state file, unlink the journal
commit_state(E) ==
    LET E1 == SetDisk(E, [E.disk EXCEPT !.new = NewStateFile(E)])
        E2 == [E1 EXCEPT !.sv.nfp = FALSE, !.sv.jfp = FALSE]
        E3 == SetDisk(E2, [E2.disk EXCEPT !.state = E2.disk.new, !.new = NoFile])
        E4 == SetDisk(E3, [E3.disk EXCEPT !.journal = NoJournal])
    IN [E4 EXCEPT !.run.ended = "commit"]

box_closed_p2(E, t) ==
    LET E1 == SetState(E, t, ST_CLOSED)
    IN IF ST_CLOSED \notin E1.sv.state[1 - t] THEN E1
       ELSE LET E2 == IF ST_DID_EXPUNGE \in (E1.sv.state[M] \cup E1.sv.state[S])
                      THEN purge_from(E1, 1, PurgeMinwuid(E1))
                      ELSE E1
            IN sync_bail(commit_state(E2))

sync_close_unfound(E, t) ==
    IF ST_SENT_TRASH \notin E.sv.state[t]
       \/ E.sv.trash_done[t] < E.sv.trash_total[t]
    THEN E
    ELSE LET E1 == [E EXCEPT !.run.cont.trash[t] = @ + 1]
         IN IF OP_EXPUNGE \in E.chan.ops[t]
            THEN Issue(E1, [NoOp EXCEPT !.op = "close", !.t = t])
            ELSE box_closed_p2(E1, t)

sync_close_early(E, t) ==
    IF {ST_FOUND_NEW, ST_SENT_TRASH} \ E.sv.state[t] # {}
    THEN E
    ELSE LET E1 == [E EXCEPT !.run.cont.trash[t] = @ + 1]
         IN IF OP_EXPUNGE \in E.chan.ops[t]
            THEN Issue(E1, [NoOp EXCEPT !.op = "close", !.t = t])
            ELSE box_closed_p2(E1, t)

sync_close(E, t) ==
    IF {ST_FOUND_NEW, ST_SENT_TRASH} \ E.sv.state[t] # {}
       \/ E.sv.trash_done[t] < E.sv.trash_total[t]
    THEN E
    ELSE LET E1 == [E EXCEPT !.run.cont.trash[t] = @ + 1]
         IN IF OP_EXPUNGE \in E.chan.ops[t]
            THEN Issue(E1, [NoOp EXCEPT !.op = "close", !.t = t])
            ELSE box_closed_p2(E1, t)

box_closed(E, t, sts) ==
    IF check_ret(E, sts) THEN check_ret_bail(E, sts)
    ELSE box_closed_p2(SetState(E, t, ST_DID_EXPUNGE), t)

msgs_new_done(E, t) == sync_close(SetState(E, t, ST_FOUND_NEW), t)

msgs_found_new(E, t, sts) ==
    IF check_ret(E, sts) THEN check_ret_bail(E, sts)
    ELSE msgs_new_done(match_tuids(E, t), t)

msgs_copied_unsent(E, t) ==
    IF E.sv.new_done[t] < E.sv.new_total[t]
    THEN E
    ELSE LET E1 == [E EXCEPT !.run.cont.new[t] = @ + 1]
         IN IF S_FIND \in E.sv.state[t]
            THEN Issue(E1, [NoOp EXCEPT !.op = "find_new_msgs", !.t = t])
            ELSE msgs_new_done(E1, t)

msgs_copied(E, t) ==
    IF ST_SENT_NEW \notin E.sv.state[t] \/ E.sv.new_done[t] < E.sv.new_total[t]
    THEN E
    ELSE LET E1 == [E EXCEPT !.run.cont.new[t] = @ + 1]
         IN IF S_FIND \in E.sv.state[t]
            THEN Issue(E1, [NoOp EXCEPT !.op = "find_new_msgs", !.t = t])
            ELSE msgs_new_done(E1, t)

\* the index of the message with the given uid in ctx[t]->msgs, 0 if none
MsgIdx(E, t, uid) ==
    LET c == {k \in 1..Len(E.ctx[t].msgs) : E.ctx[t].msgs[k].uid = uid}
    IN IF c = {} THEN 0 ELSE MinOf(c)

\* tmsg is the message k of side 1-t
msg_copied_p2(E, i, t, k, uid) ==
    LET E1 == IF E.srecs[i].uid[t] # uid
              THEN [JRec(E, IF t = M THEN "<" ELSE ">", i, uid) EXCEPT
                        !.srecs[i].uid[t] = uid, !.srecs[i].tuid = 0]
              ELSE E
        tmsg == E1.ctx[1 - t].msgs[k]
    IN IF tmsg.srec = 0
       THEN LET E2 == [E1 EXCEPT !.ctx[1 - t].msgs[k].srec = i]
            IN IF E2.sv.maxuid[1 - t] < tmsg.uid
               THEN Jprintf([E2 EXCEPT !.sv.maxuid[1 - t] = tmsg.uid],
                            <<IF t = M THEN ")" ELSE "(", tmsg.uid, 0, 0>>)
               ELSE E2
       ELSE E1

\* vars of the copy: o.aux is the target side, o.srec the record, o.uid the message
msg_copied(E, o, sts, uid) ==
    LET t == o.aux
        i == o.srec
        done(X) == msgs_copied([X EXCEPT !.sv.new_done[t] = @ + 1], t)
    IN IF sts = SYNC_CANCELED THEN E
       ELSE IF sts = SYNC_OK_STS
       THEN done(msg_copied_p2(IF uid < 0 THEN SetState(E, t, S_FIND) ELSE E,
                               i, t, MsgIdx(E, 1 - t, o.uid), uid))
       ELSE IF sts = SYNC_NOGOOD
       THEN done([JRec(E, "-", i, 0) EXCEPT !.srecs[i].status = {S_DEAD}])
       ELSE cancel_sync(E)

msg_rtrashed(E, o, sts) ==
    LET t == 1 - o.aux
    IN IF sts = SYNC_CANCELED THEN E
       ELSE IF sts \in {SYNC_OK_STS, SYNC_NOGOOD}
       THEN sync_close([E EXCEPT !.sv.trash_done[t] = @ + 1], t)
       ELSE cancel_sync(E)

\* vars->cb( sts, uid, vars )
copy_cb(E, o, sts, uid) ==
    IF o.cb = "msg_copied" THEN msg_copied(E, o, sts, uid) ELSE msg_rtrashed(E, o, sts)

msg_trashed_lenient(E, t, sts0) ==
    IF check_ret(E, sts0) THEN check_ret_bail(E, sts0)
    ELSE sync_close([E EXCEPT !.sv.trash_done[t] = @ + 1], t)

msg_trashed(E, t, sts0) ==
    LET sts == IF sts0 = DRV_MSG_BAD THEN DRV_BOX_BAD ELSE sts0
    IN IF check_ret(E, sts) THEN check_ret_bail(E, sts)
       ELSE sync_close([E EXCEPT !.sv.trash_done[t] = @ + 1], t)

\* copy_msg(): fetch the message from the side opposite to the target
copy_msg(E, cb, aux, i, tmsg) ==
    Issue(E, [NoOp EXCEPT !.op = "fetch_msg", !.t = 1 - aux, !.cb = cb, !.aux = aux,
                          !.srec = i, !.uid = tmsg.uid, !.fl = tmsg.flags])


flags_set_sync_p2(E, i, t) ==
    LET r      == E.srecs[i]
        nflags == (r.flags \cup r.aflags[t]) \ r.dflags[t]
        E1     == IF r.flags # nflags
                  THEN Jprintf([E EXCEPT !.srecs[i].flags = nflags],
                               <<"*", r.uid[M], r.uid[S], FlagsToInt(nflags)>>)
                  ELSE E
        nex    == S_NEXPIRE \in r.status
    IN IF t # S THEN E1
       ELSE IF nex # (S_EXPIRED \in r.status)
       THEN [JRec(E1, "/", i, 0) EXCEPT
                !.sv.smaxxuid = IF nex /\ @ < r.uid[S] THEN r.uid[S] ELSE @,
                !.run.expired = IF nex THEN @ \cup {r.uid[M]} ELSE @,
                !.srecs[i].status = IF nex THEN @ \cup {S_EXPIRED} ELSE @ \ {S_EXPIRED}]
       ELSE IF nex # (S_EXPIRE \in r.status)
       THEN [JRec(E1, "\\", i, 0) EXCEPT
                !.srecs[i].status = IF nex THEN @ \cup {S_EXPIRE} ELSE @ \ {S_EXPIRE}]
       ELSE E1

\* the trash loop of msgs_flags_set over the messages k.. of side t
RECURSIVE trash_from(_, _, _)
trash_from(E, t, k) ==
    IF k > Len(E.ctx[t].msgs) THEN E
    ELSE LET tmsg == E.ctx[t].msgs[k]
             conf == E.chan.stores
             isnew == tmsg.srec = 0 \/ E.srecs[tmsg.srec].uid[1 - t] < 0
         IN IF F_DELETED \notin tmsg.flags THEN trash_from(E, t, k + 1)
            ELSE IF conf[t].trash
            THEN IF ~conf[t].trash_only_new \/ isnew
                 THEN trash_from(
                          Issue([E EXCEPT !.sv.trash_total[t] = @ + 1],
                                [NoOp EXCEPT !.op = "trash_msg", !.t = t, !.uid = tmsg.uid]),
                          t, k + 1)
                 ELSE trash_from(E, t, k + 1)
            ELSE IF isnew /\ tmsg.size <= conf[1 - t].max_size
            THEN trash_from(
                     copy_msg([E EXCEPT !.sv.trash_total[t] = @ + 1],
                              "msg_rtrashed", 1 - t, 0, tmsg),
                     t, k + 1)
            ELSE trash_from(E, t, k + 1)

msgs_flags_set_hasty(E, t) ==
    IF ST_SENT_FLAGS \notin E.sv.state[t]
    THEN E
    ELSE LET conf == E.chan.stores
             E0 == [E EXCEPT !.run.cont.flags[t] = @ + 1]
             E1 == IF OP_EXPUNGE \in E.chan.ops[t]
                      /\ (conf[t].trash
                          \/ (conf[1 - t].trash /\ conf[1 - t].trash_remote_new))
                   THEN trash_from(E0, t, 1)
                   ELSE E0
         IN sync_close(SetState(E1, t, ST_SENT_TRASH), t)

msgs_flags_set(E, t) ==
    IF ST_SENT_FLAGS \notin E.sv.state[t] \/ E.sv.flags_done[t] < E.sv.flags_total[t]
    THEN E
    ELSE LET conf == E.chan.stores
             E0 == [E EXCEPT !.run.cont.flags[t] = @ + 1]
             E1 == IF OP_EXPUNGE \in E.chan.ops[t]
                      /\ (conf[t].trash
                          \/ (conf[1 - t].trash /\ conf[1 - t].trash_remote_new))
                   THEN trash_from(E0, t, 1)
                   ELSE E0
         IN sync_close(SetState(E1, t, ST_SENT_TRASH), t)

\* vars of the flag change: o.t the side, o.srec the record, o.af/o.df the flags
\* flags_set_del that does not note the deletion in the record
flags_set_del_unnoted(E, o, sts) ==
    IF check_ret(E, sts) THEN check_ret_bail(E, sts)
    ELSE msgs_flags_set([E EXCEPT !.sv.flags_done[o.t] = @ + 1], o.t)

flags_set_del(E, o, sts) ==
    LET t == o.t
        i == o.srec
        E1 == IF sts = DRV_OK
              THEN [JRec(E, IF t = M THEN ">" ELSE "<", i, 0) EXCEPT
                       !.srecs[i].status = @ \cup {S_DEL(t)},
                       !.srecs[i].uid[1 - t] = 0]
              ELSE E
    IN IF check_ret(E, sts) THEN check_ret_bail(E, sts)
       ELSE msgs_flags_set([E1 EXCEPT !.sv.flags_done[t] = @ + 1], t)

\* flags_set_sync that leaves the record as it was
flags_set_sync_lost(E, o, sts) ==
    IF check_ret(E, sts) THEN check_ret_bail(E, sts)
    ELSE msgs_flags_set([E EXCEPT !.sv.flags_done[o.t] = @ + 1], o.t)

flags_set_sync(E, o, sts) ==
    LET t == o.t
        i == o.srec
        E1 == IF sts = DRV_OK
              THEN flags_set_sync_p2(
                       [E EXCEPT !.srecs[i].status =
                            IF F_DELETED \in o.af THEN @ \cup {S_DEL(t)}
                            ELSE IF F_DELETED \in o.df THEN @ \ {S_DEL(t)}
                            ELSE @],
                       i, t)
              ELSE E
    IN IF check_ret(E, sts) THEN check_ret_bail(E, sts)
       ELSE msgs_flags_set([E1 EXCEPT !.sv.flags_done[t] = @ + 1], t)

\* the message has a header terminator (or an X-TUID line) to put the TUID at
HeaderOk(E, t, uid) ==
    \A k \in 1..Len(E.mbox[t].msgs) :
        E.mbox[t].msgs[k].uid = uid => E.mbox[t].msgs[k].hdr

\* o is the fetch; the message was fetched from side 1-o.aux
msg_fetched_untagged(E, o, sts, flags) ==
    LET t == o.aux
        k == MsgIdx(E, 1 - t, o.uid)
    IN IF sts = DRV_OK
       THEN IF check_cancel(E) THEN copy_cb(E, o, SYNC_CANCELED, 0)
            ELSE LET E1 == [E EXCEPT !.ctx[1 - t].msgs[k].flags = flags]
                 IN IF o.srec # 0 /\ ~HeaderOk(E, 1 - t, o.uid)
                    THEN copy_cb(E1, o, SYNC_NOGOOD, 0)
                    ELSE Issue(E1, [o EXCEPT !.op = "store_msg", !.t = t, !.fl = flags,
                                             !.tuid = 0])
       ELSE IF sts = DRV_CANCELED THEN copy_cb(E, o, SYNC_CANCELED, 0)
       ELSE IF sts = DRV_MSG_BAD THEN copy_cb(E, o, SYNC_NOGOOD, 0)
       ELSE copy_cb(E, o, SYNC_FAIL_STS, 0)

msg_fetched(E, o, sts, flags) ==
    LET t == o.aux
        k == MsgIdx(E, 1 - t, o.uid)
    IN IF sts = DRV_OK
       THEN IF check_cancel(E) THEN copy_cb(E, o, SYNC_CANCELED, 0)
            ELSE LET E1 == [E EXCEPT !.ctx[1 - t].msgs[k].flags = flags]
                 IN IF o.srec # 0 /\ ~HeaderOk(E, 1 - t, o.uid)
                    THEN copy_cb(E1, o, SYNC_NOGOOD, 0)
                    ELSE Issue(E1, [o EXCEPT !.op = "store_msg", !.t = t, !.fl = flags,
                                             !.tuid = IF o.srec # 0
                                                      THEN E.srecs[o.srec].tuid ELSE 0])
       ELSE IF sts = DRV_CANCELED THEN copy_cb(E, o, SYNC_CANCELED, 0)
       ELSE IF sts = DRV_MSG_BAD THEN copy_cb(E, o, SYNC_NOGOOD, 0)
       ELSE copy_cb(E, o, SYNC_FAIL_STS, 0)

msg_stored_strict(E, o, sts, uid) ==
    IF sts = DRV_OK THEN copy_cb(E, o, SYNC_OK_STS, uid)
    ELSE IF sts = DRV_CANCELED THEN copy_cb(E, o, SYNC_CANCELED, 0)
    ELSE copy_cb(E, o, SYNC_FAIL_STS, 0)

msg_stored(E, o, sts, uid) ==
    IF sts = DRV_OK THEN copy_cb(E, o, SYNC_OK_STS, uid)
    ELSE IF sts = DRV_CANCELED THEN copy_cb(E, o, SYNC_CANCELED, 0)
    ELSE IF sts = DRV_MSG_BAD THEN copy_cb(E, o, SYNC_NOGOOD, 0)
    ELSE copy_cb(E, o, SYNC_FAIL_STS, 0)

LiveSrecs(recs) == {i \in 1..Len(recs) : S_DEAD \notin recs[i].status}

MaxOf(set) == CHOOSE x \in set : \A y \in set : x >= y

\* load_box that asks for the whole mailbox
load_box_whole(E, t, minwuid0, mexcs) ==
    Issue(E, [NoOp EXCEPT !.op = "load", !.t = t, !.lo = 1, !.hi = INT_MAX,
                          !.nu = E.sv.newuid[t], !.excs = mexcs])

load_box(E, t, minwuid0, mexcs) ==
    LET opts == E.ctx[t].opts
        minwuid == IF OPEN_NEW \in opts /\ minwuid0 > E.sv.maxuid[t] + 1
                   THEN E.sv.maxuid[t] + 1 ELSE minwuid0
        maxwuid == IF OPEN_NEW \in opts THEN INT_MAX
                   ELSE IF OPEN_OLD \in opts
                   THEN MaxOf({0} \cup {E.srecs[i].uid[t] : i \in LiveSrecs(E.srecs)})
                   ELSE 0
    IN Issue(E, [NoOp EXCEPT !.op = "load", !.t = t, !.lo = minwuid, !.hi = maxwuid,
                             !.nu = E.sv.newuid[t], !.excs = mexcs])


(***************************************************************************)
(* box_loaded, in the order of its sections.                               *)
(***************************************************************************)
\* matching messages against sync records: the first live record of the list
\* with the message's uid (the hash map keeps the first inserted)
RECURSIVE PairMsgs(_, _, _)
PairMsgs(E, t, k) ==
    IF k > Len(E.ctx[t].msgs) THEN E
    ELSE LET tmsg == E.ctx[t].msgs[k]
             c == {i \in LiveSrecs(E.srecs) : E.srecs[i].uid[t] = tmsg.uid}
         IN IF tmsg.srec # 0 \/ c = {} THEN PairMsgs(E, t, k + 1)
            ELSE PairMsgs([E EXCEPT !.ctx[t].msgs[k].srec = MinOf(c),
                                    !.srecs[MinOf(c)].msg[t] = k],
                          t, k + 1)

\* preparing master selection: the record is expired and its slave message gone
ExpS(E, r) ==
    /\ S_EXPIRED \in r.status
    /\ (r.uid[S] = 0 \/ (OPEN_OLD \in E.ctx[S].opts /\ r.msg[S] = 0))

MasterMinwuid(E) ==
    LET c == {i \in LiveSrecs(E.srecs) :
                 /\ ~ExpS(E, E.srecs[i])
                 /\ (S_EXPIRED \in E.srecs[i].status
                     \/ E.sv.smaxxuid < E.srecs[i].uid[S])}
    IN MinOf({INT_MAX} \cup {E.srecs[i].uid[M] : i \in c})

MarkExpS(E) ==
    [E EXCEPT !.srecs = [i \in 1..Len(E.srecs) |->
        IF S_DEAD \notin E.srecs[i].status /\ ExpS(E, E.srecs[i])
        THEN [E.srecs[i] EXCEPT !.status = @ \cup {S_EXP_S}]
        ELSE E.srecs[i]]]

\* the second loop: kill or orphan records, collect the exception list in X.excs
RECURSIVE MasterPrep(_, _, _)
MasterPrep(X, i, minwuid) ==
    LET E == X.E
        r == E.srecs[i]
        kill == [X EXCEPT !.E = [JRec(E, "-", i, 0) EXCEPT !.srecs[i].status = {S_DEAD}]]
        Xn == IF S_DEAD \in r.status THEN X
              ELSE IF S_EXP_S \in r.status
              THEN IF minwuid > r.uid[M] /\ E.sv.maxuid[M] >= r.uid[M] THEN kill
                   ELSE IF r.uid[S] # 0
                   THEN [X EXCEPT !.E = [JRec(E, ">", i, 0) EXCEPT !.srecs[i].uid[S] = 0]]
                   ELSE X
              ELSE IF minwuid > r.uid[M]
              THEN IF r.uid[S] < 0
                   THEN IF E.sv.maxuid[M] >= r.uid[M] THEN kill ELSE X
                   ELSE IF r.uid[M] > 0 /\ r.uid[S] # 0 /\ OPEN_OLD \in E.ctx[M].opts
                           /\ (OPEN_NEW \notin E.ctx[M].opts \/ E.sv.maxuid[M] >= r.uid[M])
                   THEN [X EXCEPT !.excs = @ \cup {r.uid[M]}]
                   ELSE X
              ELSE X
    IN IF i > Len(X.E.srecs) THEN X ELSE MasterPrep(Xn, i + 1, minwuid)

PrepareMaster(E) ==
    LET minwuid == MasterMinwuid(E)
        X == MasterPrep([E |-> MarkExpS(E), excs |-> {}], 1, minwuid)
    IN load_box(X.E, M, minwuid, X.excs)

\* a variant that proposes only the messages without a record
WantsCopy_unpaired(E, t, tmsg) == tmsg.srec = 0 /\ OP_NEW \in E.chan.ops[t]

\* message k of side 1-t is to be propagated to side t
WantsCopy(E, t, tmsg) ==
    IF tmsg.srec # 0
    THEN /\ E.srecs[tmsg.srec].uid[t] < 0
         /\ IF E.srecs[tmsg.srec].uid[t] = -1
            THEN OP_RENEW \in E.chan.ops[t] ELSE OP_NEW \in E.chan.ops[t]
    ELSE OP_NEW \in E.chan.ops[t]

\* what the memory nfmalloc returns can hold where aflags and dflags are
Junk == {[a |-> {}, d |-> {}], [a |-> {F_DELETED}, d |-> {F_SEEN}]}

\* a record allocated by box_loaded: aflags and dflags are not initialized
FreshSrec(E, t, uid) ==
    [NewSrec(IF t = M THEN -2 ELSE uid, IF t = M THEN uid ELSE -2) EXCEPT
        !.status = {S_DONE},
        !.aflags = Pair(E.run.junk.a, E.run.junk.a),
        !.dflags = Pair(E.run.junk.d, E.run.junk.d)]

RECURSIVE NewMsgs(_, _, _)
NewMsgs(E, t, k) ==
    IF k > Len(E.ctx[1 - t].msgs) THEN E
    ELSE
    LET tmsg == E.ctx[1 - t].msgs[k]
        i  == IF tmsg.srec # 0 THEN tmsg.srec ELSE Len(E.srecs) + 1
        E1 == IF tmsg.srec # 0
              THEN \* the record skips the loop that sets aflags and dflags
                   [E EXCEPT !.srecs[i].status = @ \cup {S_DONE},
                             !.srecs[i].aflags = Pair(E.run.junk.a, E.run.junk.a),
                             !.srecs[i].dflags = Pair(E.run.junk.d, E.run.junk.d)]
              ELSE LET r == FreshSrec(E, t, tmsg.uid)
                   IN Jprintf([E EXCEPT !.srecs = Append(@, r)],
                              <<"+", r.uid[M], r.uid[S], 0>>)
        E2 == IF tmsg.flags # {}
              THEN JRec([E1 EXCEPT !.srecs[i].flags = tmsg.flags], "*", i,
                        FlagsToInt(tmsg.flags))
              ELSE E1
        tuid == E.run.tuids + 1
        E3 == JRec([E2 EXCEPT !.srecs[i].tuid = tuid, !.run.tuids = tuid,
                              !.sv.new_total[t] = @ + 1],
                   "#", i, tuid)
    IN IF ~WantsCopy(E, t, tmsg) THEN NewMsgs(E, t, k + 1)
       ELSE IF OP_EXPUNGE \in E.chan.ops[t] /\ F_DELETED \in tmsg.flags
       THEN NewMsgs(E, t, k + 1)
       ELSE IF F_FLAGGED \in tmsg.flags \/ tmsg.size <= E.chan.stores[t].max_size
       THEN NewMsgs(copy_msg(E3, "msg_copied", t, i, tmsg), t, k + 1)
       ELSE IF tmsg.srec # 0 THEN NewMsgs(E1, t, k + 1)
       ELSE NewMsgs(msg_copied_p2(E1, i, t, k, -1), t, k + 1)

\* synchronizing new entries on side t
SyncNew(E, t) ==
    LET E1 == Jprintf(E, <<IF t = M THEN "{" ELSE "}", E.ctx[t].uidnext, 0, 0>>)
    IN msgs_copied(SetState(NewMsgs(E1, t, 1), t, ST_SENT_NEW), t)


MsgFlags(E, t, k) == IF k = 0 THEN {} ELSE E.ctx[t].msgs[k].flags

\* one side of one old entry; del is the pair of the del[] flags
OldEntrySide(E, i, t, del) ==
    LET r0 == E.srecs[i]
        E1 == [E EXCEPT !.srecs[i].aflags[t] = {}, !.srecs[i].dflags[t] = {},
                        !.srecs[i].status =
                            IF r0.msg[t] # 0 /\ F_DELETED \in MsgFlags(E, t, r0.msg[t])
                            THEN @ \cup {S_DEL(t)} ELSE @]
        r  == E1.srecs[i]
        sflags0 == MsgFlags(E, 1 - t, r.msg[1 - t])
        sflags  == IF r.status \cap {S_EXPIRE, S_EXPIRED} # {} /\ t = M
                   THEN sflags0 \ {F_DELETED} ELSE sflags0
    IN IF r.uid[t] = 0 THEN E1
       ELSE IF del[1 - t]
       THEN IF OP_DELETE \in E.chan.ops[t]
            THEN Issue([E1 EXCEPT !.sv.flags_total[t] = @ + 1],
                       [NoOp EXCEPT !.op = "set_flags", !.t = t, !.cb = "flags_set_del",
                                    !.srec = i, !.uid = r.uid[t], !.af = {F_DELETED}])
            ELSE E1
       ELSE IF r.msg[1 - t] = 0 THEN E1
       ELSE IF r.uid[t] < 0 THEN E1
       ELSE IF ~del[t] /\ OP_FLAGS \in E.chan.ops[t]
       THEN [E1 EXCEPT !.srecs[i].aflags[t] = sflags \ r.flags,
                       !.srecs[i].dflags[t] = r.flags \ sflags]
       ELSE E1

\* synchronizing old entries: the records that existed before this run's new ones
RECURSIVE OldEntries(_, _)
OldEntries(E, i) ==
    IF i > E.sv.osrec THEN E
    ELSE LET r  == E.srecs[i]
             no == [t \in Sides |-> r.msg[t] = 0 /\ OPEN_OLD \in E.ctx[t].opts]
             del == [t \in Sides |-> no[t] /\ r.uid[t] > 0]
         IN IF r.status \cap {S_DEAD, S_DONE} # {} THEN OldEntries(E, i + 1)
            ELSE IF no[M] /\ no[S]
            THEN OldEntries([JRec(E, "-", i, 0) EXCEPT !.srecs[i].status = {S_DEAD}], i + 1)
            ELSE OldEntries(OldEntrySide(OldEntrySide(E, i, M, del), i, S, del), i + 1)

ExpNflags_now(E, tmsg) == tmsg.flags

\* the flags message tmsg of the slave will have once the pending changes are in
ExpNflags(E, tmsg) ==
    (tmsg.flags \cup E.srecs[tmsg.srec].aflags[S]) \ E.srecs[tmsg.srec].dflags[S]

\* first loop of the expiration: deleted messages do not count
RECURSIVE ExpCount(_, _, _)
ExpCount(E, k, todel) ==
    IF k > Len(E.ctx[S].msgs) \/ todel <= 0 THEN todel
    ELSE LET tmsg == E.ctx[S].msgs[k]
         IN IF M_DEAD \notin tmsg.status /\ tmsg.srec # 0
               /\ F_DELETED \in ExpNflags(E, tmsg)
               /\ E.srecs[tmsg.srec].status \cap {S_EXPIRE, S_EXPIRED} = {}
            THEN ExpCount(E, k + 1, todel - 1)
            ELSE ExpCount(E, k + 1, todel)

\* second loop: mark the records to expire with S_NEXPIRE
RECURSIVE ExpMark(_, _, _)
ExpMark(E, k, todel) ==
    IF k > Len(E.ctx[S].msgs) THEN E
    ELSE LET tmsg == E.ctx[S].msgs[k]
             i    == tmsg.srec
             st   == E.srecs[i].status \cap {S_EXPIRE, S_EXPIRED}
             nflags == ExpNflags(E, tmsg)
         IN IF M_DEAD \in tmsg.status THEN ExpMark(E, k + 1, todel)
            ELSE IF i = 0 \/ E.srecs[i].uid[M] <= 0 THEN ExpMark(E, k + 1, todel - 1)
            ELSE IF F_DELETED \in nflags /\ st = {} THEN ExpMark(E, k + 1, todel)
            ELSE IF F_FLAGGED \in nflags THEN ExpMark(E, k + 1, todel - 1)
            ELSE IF (M_RECENT \notin tmsg.status \/ F_SEEN \in tmsg.flags)
                    /\ (todel > 0 \/ st = {S_EXPIRE, S_EXPIRED}
                        \/ (st # {} /\ F_DELETED \in tmsg.flags))
            THEN ExpMark([E EXCEPT !.srecs[i].status = @ \cup {S_NEXPIRE}], k + 1, todel - 1)
            ELSE ExpMark(E, k + 1, todel)

\* third loop: journal the change of intention
RECURSIVE ExpPre(_, _)
ExpPre(E, i) ==
    IF i > Len(E.srecs) THEN E
    ELSE LET r == E.srecs[i]
             nex == S_NEXPIRE \in r.status
         IN IF r.status \cap {S_DEAD, S_DONE} # {} \/ r.msg[S] = 0
            THEN ExpPre(E, i + 1)
            ELSE IF nex # (S_EXPIRED \in r.status) /\ nex # (S_EXPIRE \in r.status)
            THEN ExpPre([JRec(E, "~", i, IF nex THEN 1 ELSE 0) EXCEPT
                            !.srecs[i].status = IF nex THEN @ \cup {S_EXPIRE}
                                                ELSE @ \ {S_EXPIRE}],
                        i + 1)
            ELSE ExpPre(E, i + 1)

Expire(E) ==
    IF E.chan.ops[S] \cap {OP_NEW, OP_RENEW, OP_FLAGS} # {} /\ E.chan.max_messages # 0
    THEN LET todel == E.ctx[S].count + E.sv.new_total[S] - E.chan.max_messages
         IN ExpPre(ExpMark(E, 1, ExpCount(E, 1, todel)), 1)
    ELSE E


\* one side of one record in the "synchronizing flags" loop
FlagsSide(E, i, t) ==
    LET r  == E.srecs[i]
        a0 == IF t = S /\ (S_EXPIRE \in r.status) # (S_EXPIRED \in r.status)
                 /\ S_NEXPIRE \in r.status
              THEN r.aflags[t] \cup {F_DELETED} ELSE r.aflags[t]
        d0 == IF t = S /\ (S_EXPIRE \in r.status) # (S_EXPIRED \in r.status)
                 /\ S_NEXPIRE \notin r.status
              THEN r.dflags[t] \cup {F_DELETED} ELSE r.dflags[t]
        exp == /\ OP_EXPUNGE \in E.chan.ops[t]
               /\ F_DELETED \in ((MsgFlags(E, t, r.msg[t]) \cup a0) \ d0)
               /\ (~E.chan.stores[t].trash \/ E.chan.stores[t].trash_only_new)
        E1 == IF exp
              THEN [E EXCEPT !.srecs[i].aflags[t] = @ \cap {F_DELETED},
                             !.srecs[i].dflags[t] = {}]
              ELSE E
        a1 == IF exp THEN a0 \cap {F_DELETED} ELSE a0
        d1 == IF exp THEN {} ELSE d0
        known == r.msg[t] # 0 /\ M_FLAGS \in E.ctx[t].msgs[r.msg[t]].status
        aflags == IF known THEN a1 \ MsgFlags(E, t, r.msg[t]) ELSE a1
        dflags == IF known THEN d1 \cap MsgFlags(E, t, r.msg[t]) ELSE d1
    IN IF aflags \cup dflags # {}
       THEN Issue([E1 EXCEPT !.sv.flags_total[t] = @ + 1],
                  [NoOp EXCEPT !.op = "set_flags", !.t = t, !.cb = "flags_set_sync",
                               !.srec = i, !.uid = r.uid[t], !.af = aflags, !.df = dflags])
       ELSE flags_set_sync_p2(E1, i, t)

RECURSIVE FlagsLoop(_, _)
FlagsLoop(E, i) ==
    IF i > E.sv.osrec THEN E
    ELSE IF E.srecs[i].status \cap {S_DEAD, S_DONE} # {} THEN FlagsLoop(E, i + 1)
    ELSE FlagsLoop(FlagsSide(FlagsSide(E, i, M), i, S), i + 1)

box_loaded(E, t, sts) ==
    LET E1 == SetState(E, t, ST_LOADED)
        E2 == IF S_FIND \in E1.sv.state[t]
              THEN match_tuids([E1 EXCEPT !.sv.state[t] = @ \ {S_FIND}], t)
              ELSE E1
        E3 == PairMsgs(E2, t, 1)
        E4 == IF E3.sv.uidval[M] < 0 \/ E3.sv.uidval[S] < 0
              THEN Jprintf([E3 EXCEPT !.sv.uidval = Pair(E3.ctx[M].uidvalidity,
                                                         E3.ctx[S].uidvalidity)],
                           <<"|", E3.ctx[M].uidvalidity, E3.ctx[S].uidvalidity, 0>>)
              ELSE E3
        E5 == SyncNew(SyncNew([E4 EXCEPT !.sv.osrec = Len(E4.srecs)], M), S)
        E6 == FlagsLoop(Expire(OldEntries(E5, 1)), 1)
    IN IF check_ret(E, sts) THEN check_ret_bail(E, sts)
       ELSE IF t = S /\ E3.sv.smaxxuid # 0 THEN PrepareMaster(E3)
       ELSE IF ST_LOADED \notin E3.sv.state[1 - t] THEN E3
       ELSE msgs_flags_set(SetState(msgs_flags_set(SetState(E6, M, ST_SENT_FLAGS), M),
                                    S, ST_SENT_FLAGS), S)

(***************************************************************************)
(* box_selected and sync_boxes.                                            *)
(***************************************************************************)
ChanOpts(ch) ==
    LET side(t) ==
            (IF ch.ops[t] \cap {OP_DELETE, OP_FLAGS} # {} THEN {OPEN_SETFLAGS} ELSE {})
            \cup (IF ch.ops[t] \cap {OP_NEW, OP_RENEW} # {} THEN {OPEN_APPEND} ELSE {})
            \cup (IF OP_EXPUNGE \in ch.ops[t]
                  THEN {OPEN_EXPUNGE}
                       \cup (IF ch.stores[t].trash
                             THEN (IF ch.stores[t].trash_only_new THEN {} ELSE {OPEN_OLD})
                                  \cup {OPEN_NEW, OPEN_FLAGS}
                             ELSE IF ch.stores[1 - t].trash
                                     /\ ch.stores[1 - t].trash_remote_new
                             THEN {OPEN_NEW, OPEN_FLAGS} ELSE {})
                  ELSE {})
        other(t) ==
            (IF ch.ops[t] \cap {OP_DELETE, OP_FLAGS} # {} THEN {OPEN_OLD} ELSE {})
            \cup (IF OP_FLAGS \in ch.ops[t] THEN {OPEN_FLAGS} ELSE {})
            \cup (IF OP_RENEW \in ch.ops[t] THEN {OPEN_OLD} ELSE {})
            \cup (IF OP_NEW \in ch.ops[t] THEN {OPEN_NEW} ELSE {})
            \cup (IF ch.ops[t] \cap {OP_NEW, OP_RENEW} # {} /\ OP_EXPUNGE \in ch.ops[t]
                  THEN {OPEN_FLAGS} ELSE {})
            \cup (IF ch.ops[t] \cap {OP_NEW, OP_RENEW} # {}
                     /\ ch.stores[t].max_size # INT_MAX
                  THEN {OPEN_SIZE} ELSE {})
        exps == IF ch.ops[S] \cap {OP_NEW, OP_RENEW} # {} /\ ch.max_messages # 0
                THEN {OPEN_OLD, OPEN_NEW, OPEN_FLAGS, OPEN_TIME} ELSE {}
    IN Pair(side(M) \cup other(S), side(S) \cup other(M) \cup exps)

\* what the recovered records add to the options and to svars->state
RecoveryOpts(recs, line) ==
    LET live == IF line = 0 THEN {} ELSE LiveSrecs(recs)
        findM == \E i \in live : recs[i].tuid # 0 /\ recs[i].uid[M] = -2
        findS == \E i \in live : recs[i].tuid # 0 /\ recs[i].uid[M] # -2
                                 /\ recs[i].uid[S] = -2
        pend  == \E i \in live : (S_EXPIRE \in recs[i].status) # (S_EXPIRED \in recs[i].status)
    IN [opts |-> Pair(IF findM THEN {OPEN_NEW, OPEN_FIND} ELSE {},
                      (IF findS THEN {OPEN_NEW, OPEN_FIND} ELSE {})
                      \cup (IF pend THEN {OPEN_OLD, OPEN_FLAGS} ELSE {})),
        find |-> Pair(findM, findS)]


\* a variant that removes the journal it could not use
fail_run_wiped(E) ==
    [E EXCEPT !.sv.ret = {SYNC_FAIL}, !.run.ended = "bail", !.disk.journal = NoJournal]

\* a variant that does not report the failure
fail_run_quiet(E) == [E EXCEPT !.run.ended = "bail"]

\* the run ends without having synchronized anything
fail_run(E) == [E EXCEPT !.sv.ret = {SYNC_FAIL}, !.run.ended = "bail"]

box_selected(E, t, sts) ==
    LET first(opts, x) == IF OPEN_OLD \in opts[x] THEN 1 ELSE INT_MAX
        \* the loads are requested
        loads(E8, opts) ==
            load_box(IF E8.sv.smaxxuid = 0 THEN load_box(E8, M, first(opts, M), {}) ELSE E8,
                     S, first(opts, S), {})
        \* the options of the channel and of the recovered records
        prepare(E7, ro, opts) ==
            loads([E7 EXCEPT !.ctx[M].opts = opts[M], !.ctx[S].opts = opts[S],
                             !.sv.state = [x \in Sides |->
                                 IF ro.find[x] THEN @[x] \cup {S_FIND} ELSE @[x]]],
                  opts)
        options(E7, ro) ==
            prepare(E7, ro, [x \in Sides |-> ChanOpts(E.chan)[x] \cup ro.opts[x]])
        \* a journal that was not replayed gets its version line
        version(E6, L) ==
            options(IF L.line = 0 THEN Jprintf(E6, VersionLine) ELSE E6,
                    RecoveryOpts(L.srecs, L.line))
        \* state.new is created, the journal is opened for appending
        journal(E5, L) ==
            version(SetDisk([E5 EXCEPT !.sv.jfp = TRUE],
                            [E5.disk EXCEPT !.journal.ex = TRUE]), L)
        newstate(E4, L) ==
            journal(SetDisk([E4 EXCEPT !.sv.nfp = TRUE],
                            [E4.disk EXCEPT !.new = [NoFile EXCEPT !.ex = TRUE]]), L)
        changed(E4) == \E x \in Sides :
                           E4.sv.uidval[x] >= 0 /\ E4.sv.uidval[x] # E4.ctx[x].uidvalidity
        validity(E4, L) ==
            IF L.err \/ changed(E4) THEN sync_bail(fail_run(E4)) ELSE newstate(E4, L)
        \* the state file is read and the journal replayed
        recover(E3, L) ==
            validity([E3 EXCEPT !.srecs = L.srecs, !.sv.uidval = L.uidval,
                                !.sv.maxuid = L.maxuid, !.sv.smaxxuid = L.smaxxuid,
                                !.sv.newuid = L.newuid], L)
        \* the lock file is opened and locked
        setlk(E2, fd) ==
            IF ~LockFree(E2.lock, fd, EnginePid) THEN sync_bail1(fail_run(E2))
            ELSE recover([E2 EXCEPT !.lock = LockSetlk(@, fd, EnginePid),
                                    !.run.loads = @ + 1],
                         LoadState(E2.disk))
        open(E1, fd) == setlk([E1 EXCEPT !.lock = LockOpen(@), !.sv.lfd = fd], fd)
        selected(E1) ==
            IF ST_SELECTED \notin E1.sv.state[1 - t] THEN E1
            ELSE open(E1, LockFd(E1.lock))
        noted(E0) ==
            IF check_ret(E0, sts) THEN check_ret_bail(E0, sts)
            ELSE selected(SetState(E0, t, ST_SELECTED))
    IN noted([E EXCEPT !.run.sel[t] = sts])

sync_boxes(E) ==
    LET E1 == [E EXCEPT !.sv = [InitSvars EXCEPT !.ref_count = 1],
                        !.srecs = <<>>,
                        !.ctx = Pair(NoCtx, NoCtx)]
    IN [E1 EXCEPT !.pend = @ \cup {[NoOp EXCEPT !.op = "select", !.t = t,
                                                !.cb = "box_selected"] : t \in Sides}]

(***************************************************************************)
(* The drivers: what a command does to the mailbox and to the store_t by   *)
(* the time its callback is invoked with DRV_OK.                           *)
(***************************************************************************)
NoMbox ==
    [msgs |-> <<>>, uidnext |-> 1, uidvalidity |-> 1, uidplus |-> TRUE, trash |-> {},
     sync |-> FALSE]

MboxMsg(uid, flags) ==
    [uid |-> uid, flags |-> flags, tuid |-> 0, size |-> 1, hdr |-> TRUE, origin |-> 0,
     recent |-> FALSE]

MboxIdx(mb, uid) ==
    LET c == {k \in 1..Len(mb.msgs) : mb.msgs[k].uid = uid}
    IN IF c = {} THEN 0 ELSE MinOf(c)

\* the message_t the driver makes of a mailbox message
Loaded(opts, nu, m) ==
    [uid |-> m.uid,
     flags |-> IF OPEN_FLAGS \in opts THEN m.flags ELSE {},
     status |-> (IF OPEN_FLAGS \in opts THEN {M_FLAGS} ELSE {})
                    \cup (IF m.recent THEN {M_RECENT} ELSE {}),
     tuid |-> IF OPEN_FIND \in opts /\ m.uid >= nu THEN m.tuid ELSE 0,
     size |-> IF OPEN_SIZE \in opts THEN m.size ELSE 0,
     srec |-> 0]

RECURSIVE LoadedSeq(_, _, _)
LoadedSeq(opts, nu, seq) ==
    IF seq = <<>> THEN <<>>
    ELSE <<Loaded(opts, nu, Head(seq))>> \o LoadedSeq(opts, nu, Tail(seq))

drv_select(E, o) ==
    [E EXCEPT !.ctx[o.t].uidvalidity = E.mbox[o.t].uidvalidity,
              !.ctx[o.t].uidnext = E.mbox[o.t].uidnext,
              !.ctx[o.t].count = Len(E.mbox[o.t].msgs)]

drv_load(E, o) ==
    LET want(m) == (o.lo <= m.uid /\ m.uid <= o.hi) \/ m.uid \in o.excs
    IN [E EXCEPT !.ctx[o.t].msgs =
            LoadedSeq(E.ctx[o.t].opts, o.nu, SelectSeq(E.mbox[o.t].msgs, want)),
                 !.ctx[o.t].count = Len(E.mbox[o.t].msgs)]

\* the uid the stored message gets, and what store_msg reports of it
StoredUid(E, o) == E.mbox[o.t].uidnext

drv_store_msg(E, o) ==
    IF o.srec = 0
    THEN [E EXCEPT !.mbox[o.t].trash = @ \cup {<<1 - o.t, o.uid>>}]
    ELSE [E EXCEPT !.mbox[o.t].msgs =
                        Append(@, [MboxMsg(StoredUid(E, o), o.fl) EXCEPT
                                      !.tuid = o.tuid, !.origin = o.uid]),
                   !.mbox[o.t].uidnext = @ + 1]

drv_set_flags(E, o) ==
    LET k == MboxIdx(E.mbox[o.t], o.uid)
        j == IF o.srec = 0 THEN 0 ELSE E.srecs[o.srec].msg[o.t]
        E1 == IF k = 0 THEN E
              ELSE [E EXCEPT !.mbox[o.t].msgs[k].flags = (@ \cup o.af) \ o.df]
    IN IF j = 0 THEN E1
       ELSE [E1 EXCEPT !.ctx[o.t].msgs[j].flags = (@ \cup o.af) \ o.df]

drv_find_new_msgs(E, o) ==
    LET have == {E.ctx[o.t].msgs[k].uid : k \in 1..Len(E.ctx[o.t].msgs)}
        new(m) == m.uid >= E.ctx[o.t].uidnext /\ m.uid \notin have
    IN [E EXCEPT !.ctx[o.t].msgs =
            @ \o LoadedSeq(E.ctx[o.t].opts \cup {OPEN_FIND}, 0,
                           SelectSeq(E.mbox[o.t].msgs, new))]

drv_trash_msg(E, o) == [E EXCEPT !.mbox[o.t].trash = @ \cup {<<o.t, o.uid>>}]

drv_close(E, o) ==
    LET keep(m) == F_DELETED \notin m.flags
    IN [E EXCEPT !.mbox[o.t].msgs = SelectSeq(@, keep)]


(***************************************************************************)
(* Delivery of a completion to the callback registered with the command.   *)
(***************************************************************************)
\* what store_msg passes as the uid of the new copy
ReportedUid(E, o) == IF E.mbox[o.t].uidplus THEN StoredUid(E, o) ELSE -1

FetchedFlags(E, o) ==
    LET k == MboxIdx(E.mbox[o.t], o.uid)
    IN IF k = 0 THEN {} ELSE E.mbox[o.t].msgs[k].flags

Effect(E, o) ==
    CASE o.op = "select" -> drv_select(E, o)
      [] o.op = "load" -> drv_load(E, o)
      [] o.op = "store_msg" -> drv_store_msg(E, o)
      [] o.op = "set_flags" -> drv_set_flags(E, o)
      [] o.op = "find_new_msgs" -> drv_find_new_msgs(E, o)
      [] o.op = "trash_msg" -> drv_trash_msg(E, o)
      [] o.op = "close" -> drv_close(E, o)
      [] OTHER -> E

Callback(E0, E, o, sts) ==
    CASE o.op = "select" -> box_selected(E, o.t, sts)
      [] o.op = "load" -> box_loaded(E, o.t, sts)
      [] o.op = "fetch_msg" -> msg_fetched(E, o, sts, FetchedFlags(E0, o))
      [] o.op = "store_msg" -> msg_stored(E, o, sts, ReportedUid(E0, o))
      [] o.op = "set_flags" /\ o.cb = "flags_set_del" -> flags_set_del(E, o, sts)
      [] o.op = "set_flags" /\ o.cb # "flags_set_del" -> flags_set_sync(E, o, sts)
      [] o.op = "find_new_msgs" -> msgs_found_new(E, o.t, sts)
      [] o.op = "trash_msg" -> msg_trashed(E, o.t, sts)
      [] o.op = "close" -> box_closed(E, o.t, sts)
      [] o.op = "cancel" -> cancel_done(E, o.t)

\* the command completes with sts: its effect, then its callback
Deliver(E, o, sts) ==
    LET E0 == [E EXCEPT !.pend = @ \ {o}, !.cds = {}]
    IN Callback(E0, IF sts = DRV_OK THEN Effect(E0, o) ELSE E0, o, sts)

\* the callback reads or writes svars
Touches(o, sts) == o.op = "cancel" \/ sts # DRV_CANCELED

CancelPending(pend, t) == \E c \in pend : c.op = "cancel" /\ c.t = t

MsgOps == {"fetch_msg", "store_msg", "set_flags", "trash_msg"}

\* the statuses the driver can complete the command with; F: the failures
\* the environment produces
Statuses(E, o, F) ==
    IF o.op = "cancel" THEN {DRV_OK}
    ELSE IF E.run.bad[o.t] THEN {DRV_CANCELED}
    ELSE (IF o.op = "fetch_msg" /\ MboxIdx(E.mbox[o.t], o.uid) = 0
          THEN {DRV_MSG_BAD} ELSE {DRV_OK})
         \cup (IF o.op \in MsgOps THEN F \cap {DRV_MSG_BAD} ELSE {})
         \cup (F \cap {DRV_BOX_BAD})
         \cup (IF CancelPending(E.pend, o.t) THEN {DRV_CANCELED} ELSE {})

\* cancel() calls back once the commands in flight have completed
Deliverable(E, o) ==
    o.op = "cancel" => \A c \in E.pend : c.t = o.t => c = o

Bundle ==
    [sv |-> svars, srecs |-> srecs, ctx |-> ctx, pend |-> pending, disk |-> disk,
     cds |-> crashDisks, lock |-> lock, run |-> run, chan |-> chan, mbox |-> mbox]

Apply(E) ==
    /\ svars' = E.sv
    /\ srecs' = E.srecs
    /\ ctx' = E.ctx
    /\ pending' = E.pend
    /\ disk' = E.disk
    /\ crashDisks' = E.cds
    /\ lock' = E.lock
    /\ run' = E.run
    /\ mbox' = E.mbox
    /\ UNCHANGED <<chan, procs>>


(***************************************************************************)
(* Initial state.                                                          *)
(***************************************************************************)
StoreConf == [trash |-> FALSE, trash_only_new |-> FALSE, trash_remote_new |-> FALSE,
              max_size |-> INT_MAX]

\* Sync All, Expunge Both
ChanAll ==
    [ops |-> Pair({OP_NEW, OP_RENEW, OP_DELETE, OP_FLAGS, OP_EXPUNGE},
                  {OP_NEW, OP_RENEW, OP_DELETE, OP_FLAGS, OP_EXPUNGE}),
     stores |-> Pair(StoreConf, StoreConf), max_messages |-> 0]

\* Sync Pull, no expunge
ChanPull ==
    [ops |-> Pair({}, {OP_NEW, OP_RENEW, OP_DELETE, OP_FLAGS}),
     stores |-> Pair(StoreConf, StoreConf), max_messages |-> 0]

NoRun ==
    [n |-> 0, phase |-> "idle", cbs |-> 0, cbret |-> {}, teardowns |-> 0,
     ended |-> "", cancels |-> Pair(0, 0), bad |-> Pair(FALSE, FALSE),
     uaf |-> FALSE, killed |-> FALSE, start |-> NoFile, tuids |-> 0,
     junk |-> [a |-> {}, d |-> {}], boxbad |-> FALSE, byTuid |-> {}, orphans |-> {},
     expired |-> {}, mbox0 |-> Pair(NoMbox, NoMbox), lost |-> {},
     sel |-> Pair("", ""), loads |-> 0, nogood |-> {},
     trashbad |-> Pair(FALSE, FALSE),
     cont |-> [new |-> Pair(0, 0), flags |-> Pair(0, 0), trash |-> Pair(0, 0)]]

Procs == 1..MaxProcs

InitWith(configs) ==
    /\ chan \in configs
    /\ \E up \in BOOLEAN :
           mbox = Pair([NoMbox EXCEPT !.uidplus = up], [NoMbox EXCEPT !.uidplus = up])
    /\ disk = NoDisk
    /\ lock = NoLock
    /\ procs = [p \in Procs |-> [pc |-> "idle", fd |-> 0, runs |-> 0]]
    /\ svars = InitSvars
    /\ srecs = <<>>
    /\ ctx = Pair(NoCtx, NoCtx)
    /\ pending = {}
    /\ crashDisks = {}
    /\ run = NoRun

Init == InitWith({ChanAll, ChanPull})

(***************************************************************************)
(* Actions.                                                                *)
(***************************************************************************)
\* main() calls sync_boxes for the channel
StartRun ==
    /\ run.phase # "running"
    /\ pending = {}
    /\ run.n < MaxRuns
    /\ \E j \in Junk :
           Apply(sync_boxes([Bundle EXCEPT
               !.cds = {},
               !.run = [NoRun EXCEPT !.n = run.n + 1, !.phase = "running",
                                     !.start = disk.state, !.tuids = run.tuids,
                                     !.junk = j, !.expired = run.expired,
                                     !.mbox0 = mbox,
                                     !.orphans = IF run.ended = "kill" THEN run.orphans
                                                 ELSE {}]]))

\* the event loop delivers the completion of a pending command
Complete(F) ==
    /\ run.phase = "running"
    /\ \E o \in pending :
           /\ Deliverable(Bundle, o)
           /\ \E sts \in Statuses(Bundle, o, F) :
                  Apply([Deliver(Bundle, o, sts) EXCEPT
                            !.run.boxbad = @ \/ sts = DRV_BOX_BAD,
                            \* the records whose copy fails for the message alone
                            !.run.nogood =
                                IF /\ o.op \in {"fetch_msg", "store_msg"}
                                   /\ o.srec # 0
                                   /\ \/ sts = DRV_MSG_BAD
                                      \/ /\ sts = DRV_OK
                                         /\ o.op = "fetch_msg"
                                         /\ ~HeaderOk(Bundle, o.t, o.uid)
                                THEN @ \cup {o.srec} ELSE @,
                            !.run.trashbad[o.t] =
                                @ \/ (o.op = "trash_msg" /\ sts = DRV_MSG_BAD)])

\* a completion arrives after svars was freed: the callback that touches it
\* uses freed memory; it either faults or works on the stale contents
CompleteFreed ==
    /\ run.phase = "done"
    /\ \E o \in pending :
           /\ Deliverable(Bundle, o)
           /\ \E sts \in Statuses(Bundle, o, {}) :
                  IF Touches(o, sts)
                  THEN \/ Apply([Bundle EXCEPT !.pend = @ \ {o}, !.cds = {},
                                               !.run.uaf = TRUE])
                       \/ Apply([Deliver(Bundle, o, sts) EXCEPT !.run.uaf = TRUE])
                  ELSE Apply(Deliver(Bundle, o, sts))

\* the driver reports the store broken: the bad callback, at most once per store
StoreBad ==
    /\ run.phase = "running"
    /\ \E t \in Sides :
           /\ ~run.bad[t]
           /\ Apply(store_bad([Bundle EXCEPT !.cds = {}, !.run.bad[t] = TRUE], t))

\* the copies a kill leaves stored without their uid journalled: the records
\* the next run loads from d with a TUID and uid -2 on side t, whose message
\* is in the mailbox of side t
Orphans(d) ==
    LET L == LoadState(d)
        hit(t, i, k) == /\ L.srecs[i].uid[t] = -2
                        /\ L.srecs[i].tuid # 0
                        /\ mbox[t].msgs[k].tuid = L.srecs[i].tuid
    IN IF L.err THEN {}
       ELSE UNION {{[t |-> t, src |-> L.srecs[x[1]].uid[1 - t],
                     dst |-> mbox[t].msgs[x[2]].uid] :
                        x \in {y \in LiveSrecs(L.srecs) \X (1..Len(mbox[t].msgs)) :
                                  hit(t, y[1], y[2])}} : t \in Sides}

\* the process is killed: between two callbacks, or inside the last one
Kill ==
    /\ run.n >= 1
    /\ ~run.killed
    /\ \E d \in crashDisks \cup (IF run.phase = "running" THEN {disk} ELSE {}) :
           /\ disk' = d
           /\ lock' = IF svars.lfd # 0 /\ lock.owner[svars.lfd] = EnginePid
                      THEN LockClose(lock, svars.lfd, EnginePid) ELSE lock
           /\ svars' = InitSvars
           /\ srecs' = <<>>
           /\ ctx' = Pair(NoCtx, NoCtx)
           /\ pending' = {}
           /\ crashDisks' = {}
           /\ run' = [run EXCEPT !.phase = "idle", !.killed = TRUE, !.ended = "kill",
                                  !.orphans = Orphans(d)]
           /\ UNCHANGED <<chan, mbox, procs>>

\* a message arrives in a mailbox while no run is active
Arrive ==
    /\ run.phase # "running"
    /\ pending = {}
    /\ \E t \in Sides :
           /\ mbox[t].uidnext <= MaxMsgs
           /\ mbox' = [mbox EXCEPT ![t].msgs = Append(@, MboxMsg(mbox[t].uidnext, {})),
                                   ![t].uidnext = @ + 1]
    /\ crashDisks' = {}
    /\ UNCHANGED <<chan, disk, lock, procs, svars, srecs, ctx, pending, run>>

\* the user marks a message deleted while no run is active
UserDelete ==
    /\ run.phase # "running"
    /\ pending = {}
    /\ \E t \in Sides : \E k \in 1..Len(mbox[t].msgs) :
           /\ F_DELETED \notin mbox[t].msgs[k].flags
           /\ mbox' = [mbox EXCEPT ![t].msgs[k].flags = @ \cup {F_DELETED}]
    /\ crashDisks' = {}
    /\ UNCHANGED <<chan, disk, lock, procs, svars, srecs, ctx, pending, run>>

Next == StartRun \/ Complete({}) \/ Arrive \/ UserDelete

Spec == Init /\ [][Next]_vars


(***************************************************************************)
(* Runs of a pull channel with user activity between them.                 *)
(***************************************************************************)
MaxSyncs == 2

\* Sync PullNew PullReNew PullFlags, plus x of PullDelete and Expunge Slave;
\* Sync Push, Expunge Master
SyncConfigs ==
    {[ops |-> Pair({}, {OP_NEW, OP_RENEW, OP_FLAGS} \cup x),
      stores |-> Pair(StoreConf, StoreConf), max_messages |-> 0] :
         x \in SUBSET {OP_DELETE, OP_EXPUNGE}}
    \cup {[ops |-> Pair({OP_NEW, OP_RENEW, OP_FLAGS, OP_DELETE, OP_EXPUNGE}, {}),
            stores |-> Pair(StoreConf, StoreConf), max_messages |-> 0]}

\* the user sets \Seen on a message while no run is active
UserSeen ==
    /\ run.phase # "running"
    /\ pending = {}
    /\ \E t \in Sides : \E k \in 1..Len(mbox[t].msgs) :
           /\ F_SEEN \notin mbox[t].msgs[k].flags
           /\ mbox' = [mbox EXCEPT ![t].msgs[k].flags = @ \cup {F_SEEN}]
    /\ crashDisks' = {}
    /\ UNCHANGED <<chan, disk, lock, procs, svars, srecs, ctx, pending, run>>

\* another client expunges a mailbox while no run is active
UserExpunge ==
    /\ run.phase # "running"
    /\ pending = {}
    /\ \E t \in Sides :
           /\ \E k \in 1..Len(mbox[t].msgs) : F_DELETED \in mbox[t].msgs[k].flags
           /\ mbox' = [mbox EXCEPT ![t].msgs =
                           SelectSeq(@, LAMBDA m : F_DELETED \notin m.flags)]
    /\ crashDisks' = {}
    /\ UNCHANGED <<chan, disk, lock, procs, svars, srecs, ctx, pending, run>>

NextSync ==
    \/ (run.n < MaxSyncs /\ StartRun)
    \/ Complete({}) \/ Arrive \/ UserSeen \/ UserDelete \/ UserExpunge

SpecSync == InitWith(SyncConfigs) /\ [][NextSync]_vars


\* the last run went through to the rename of the new state file
Committed == run.phase = "done" /\ run.ended = "commit"

\* the uid of side t in entry e of a state file
EntryUid(e, t) == e[t + 1]

StateEntries == {disk.state.ents[k] : k \in 1..Len(disk.state.ents)}

\* C11: after a run that commits, no record written to the state
\* file has the placeholder uid -1 or -2 on either side.
C11_NoPlaceholderCommitted ==
    Committed => \A e \in StateEntries : \A t \in Sides : EntryUid(e, t) \notin {-1, -2}


\* the step in which a run renames the new state file and ends
RunCommits == run.phase = "running" /\ run'.phase = "done" /\ run'.ended = "commit"

\* the records of state file f
StateRecs(f) == {ReadEntry(f.ents[k]) : k \in 1..Len(f.ents)}

\* the flags of the messages with the uid in mailbox mb
FlagsOf(mb, uid) == {mb.msgs[k].flags : k \in {j \in 1..Len(mb.msgs) : mb.msgs[j].uid = uid}}

\* the records of f whose messages are in both mailboxes
BothPresent(f, mb) ==
    {r \in StateRecs(f) : \A t \in Sides : r.uid[t] > 0 /\ FlagsOf(mb[t], r.uid[t]) # {}}

MasterGone(mb) ==
    {r \in StateRecs(run.start) :
        r.uid[M] > 0 /\ r.uid[S] > 0 /\ FlagsOf(mb[M], r.uid[M]) = {}}

\* C14: when a run with DELETE enabled for the slave commits, the slave message
\* of every pair whose master message was expunged carries DELETED; if EXPUNGE
\* is enabled for the slave too and it has no trash, the slave message is gone
\* and no record of the committed state refers to it.
C14_DeletePropagated ==
    [][(RunCommits /\ OP_DELETE \in chan.ops[S]) =>
          \A r \in MasterGone(mbox') :
              /\ \A f \in FlagsOf(mbox'[S], r.uid[S]) : F_DELETED \in f
              /\ (OP_EXPUNGE \in chan.ops[S] /\ ~chan.stores[S].trash) =>
                     /\ FlagsOf(mbox'[S], r.uid[S]) = {}
                     /\ \A r2 \in StateRecs(disk'.state) : r2.uid[S] # r.uid[S]]_vars


\* a run with DELETE and EXPUNGE enabled for the slave has set one flag on the
\* slave and committed: the slave message of the pair is gone, and its record
C14_Witness ==
    /\ Committed
    /\ {OP_DELETE, OP_EXPUNGE} \subseteq chan.ops[S]
    /\ svars.flags_total[S] = 1
    /\ \E r \in MasterGone(mbox) : FlagsOf(mbox[S], r.uid[S]) = {}
    /\ StateRecs(disk.state) = {}


\* the uids of the messages of the master in mailbox mb that are above the
\* maxuid of the state the run started from, and not flagged DELETED
NewOnMaster(mb) ==
    {mb[M].msgs[k].uid : k \in {j \in 1..Len(mb[M].msgs) :
        /\ mb[M].msgs[j].uid > (IF run.start.ex THEN run.start.hdr[2] ELSE 0)
        /\ F_DELETED \notin mb[M].msgs[j].flags}}

\* C15: when a run with NEW enabled towards the slave commits, every driver
\* operation having succeeded and no message being over the size limit, every
\* new master message (not flagged DELETED) has a record with positive uids on
\* both sides in the committed state, and the master maxuid of the header is
\* the highest uid of these messages.
C15_NewMessagesPaired ==
    [][(RunCommits /\ OP_NEW \in chan.ops[S]) =>
          /\ \A u \in NewOnMaster(mbox') :
                 \E r \in StateRecs(disk'.state) : r.uid[M] = u /\ r.uid[S] > 0
          /\ NewOnMaster(mbox') # {} =>
                 disk'.state.hdr[2] = MaxOf(NewOnMaster(mbox'))]_vars


\* the copies in the mailbox of side b at the start of the run that are not
\* flagged DELETED and whose original on the other side has been expunged
Bereft(b) ==
    {c \in {run.mbox0[b].msgs[k] : k \in 1..Len(run.mbox0[b].msgs)} :
        /\ c.origin # 0
        /\ F_DELETED \notin c.flags
        /\ FlagsOf(run.mbox0[1 - b], c.origin) = {}}

\* C16: a message is created on one side and copied by a run, then deleted on
\* that side; when the next run commits, the copy is still in the mailbox of
\* the other side if and only if DELETE and EXPUNGE are not both enabled for
\* the other side.
C16_RoundTrip ==
    [][RunCommits =>
          \A b \in Sides : \A c \in Bereft(b) :
              (FlagsOf(mbox'[b], c.uid) # {})
                  <=> ~({OP_DELETE, OP_EXPUNGE} \subseteq chan.ops[b])]_vars


(***************************************************************************)
(* Runs of a pull channel with MaxMessages.                                *)
(***************************************************************************)
MaxMail == 3
MaxValidity == 2

\* Sync PullNew PullReNew PullFlags, MaxMessages 1, with and without Expunge Slave
ExpireConfigs ==
    {[ops |-> Pair({}, {OP_NEW, OP_RENEW, OP_FLAGS} \cup x),
      stores |-> Pair(StoreConf, StoreConf), max_messages |-> 1] :
         x \in {{}, {OP_EXPUNGE}}}

\* a message arrives in the master mailbox while no run is active
Post ==
    /\ run.phase # "running"
    /\ pending = {}
    /\ mbox[M].uidnext <= MaxMail
    /\ mbox' = [mbox EXCEPT ![M].msgs = Append(@, MboxMsg(mbox[M].uidnext, {})),
                            ![M].uidnext = @ + 1]
    /\ crashDisks' = {}
    /\ UNCHANGED <<chan, disk, lock, procs, svars, srecs, ctx, pending, run>>

NextExpire == StartRun \/ Complete({}) \/ Post \/ UserExpunge

SpecExpire == InitWith(ExpireConfigs) /\ [][NextExpire]_vars


SpecExpireCrash ==
    /\ InitWith({c \in ExpireConfigs : OP_EXPUNGE \notin c.ops[S]})
    /\ [][StartRun \/ Complete({}) \/ (mbox[M].uidnext < MaxMail /\ Post) \/ Kill]_vars

\* C19: smaxxuid never decreases: no step of a run lowers the value the
\* engine holds, replaying a journal gives at least the value of the state
\* header it is replayed atop, and every state file a run leaves has at
\* least the value the state file had when the run started
C19_SmaxxuidNeverDecreases ==
    [][/\ (run.phase = "running" /\ run'.phase = "running")
            => svars'.smaxxuid >= svars.smaxxuid
       /\ \A d \in crashDisks' \cup {disk'} :
            /\ ~LoadState(d).err
                   => LoadState(d).smaxxuid >= ReadState(d.state).smaxxuid
            /\ (d.state.ex /\ run'.start.ex)
                   => d.state.hdr[4] >= run'.start.hdr[4]]_vars

C19_Witness ==
    /\ Committed
    /\ run.start.ex
    /\ disk.state.hdr[4] > run.start.hdr[4]

(***************************************************************************)
(* Runs that can be killed.                                                *)
(***************************************************************************)
InitCrash == InitWith({ChanPull})

NextCrash == StartRun \/ Complete({}) \/ Arrive \/ Kill

SpecCrash == InitCrash /\ [][NextCrash]_vars

\* the files a kill can leave: the ones on disk, or the ones inside the last callback
Images == crashDisks \cup {disk}

\* C1: whatever step a run is killed at, and after several killed runs in a
\* row, the load procedure of the next run finds the files loadable: neither
\* the state file nor the journal makes it fail
C1_AlwaysLoadable == \A d \in Images : ~LoadState(d).err

RECURSIVE CommittedRecs(_)
CommittedRecs(recs) ==
    IF recs = <<>> THEN <<>>
    ELSE (IF S_DEAD \in Head(recs).status THEN <<>>
          ELSE << [uid |-> Head(recs).uid, flags |-> Head(recs).flags,
                   expired |-> S_EXPIRED \in Head(recs).status] >>)
         \o CommittedRecs(Tail(recs))

\* what a loaded state commits to: header values and live records
CommittedView(L) ==
    [err |-> L.err, uidval |-> L.uidval, maxuid |-> L.maxuid, smaxxuid |-> L.smaxxuid,
     recs |-> IF L.err THEN <<>> ELSE CommittedRecs(L.srecs)]

\* C3: when state.new is completely written and the run is killed before the
\* rename, loading the old state and replaying the journal gives the live
\* records and the header values written to state.new
C3_ReplayEqualsNewState ==
    \A d \in Images :
        d.new.full => CommittedView(LoadState(d)) = CommittedView(ReadState(d.new))

RECURSIVE JournalledRecs(_)
JournalledRecs(recs) ==
    IF recs = <<>> THEN <<>>
    ELSE (IF S_DEAD \in Head(recs).status THEN <<>>
          ELSE << [uid |-> Head(recs).uid, flags |-> Head(recs).flags,
                   expire |-> S_EXPIRE \in Head(recs).status,
                   expired |-> S_EXPIRED \in Head(recs).status,
                   tuid |-> Head(recs).tuid] >>)
         \o JournalledRecs(Tail(recs))

JournalledView(err, recs, maxuid, smaxxuid) ==
    [err |-> err, maxuid |-> maxuid, smaxxuid |-> smaxxuid,
     recs |-> IF err THEN <<>> ELSE JournalledRecs(recs)]

\* the engine has loaded the state and holds the journal open
Journalling == run.phase = "running" /\ svars.jfp

\* C7: at every point of a run, the journal on disk replayed atop the state
\* file gives the live records (uid pair, flags, EXPIRE, EXPIRED, TUID) and
\* the maxuid and smaxxuid values the engine holds in memory
C7_ReplayEqualsMemory ==
    Journalling =>
        LET L == LoadState(disk)
        IN JournalledView(L.err, L.srecs, L.maxuid, L.smaxxuid)
           = JournalledView(FALSE, srecs, svars.maxuid, svars.smaxxuid)

LostLines == {j \in 1..Len(disk.journal.lines) : disk.journal.lines[j][1] = "&"}

\* line k of the journal is about the record that line j is about
SameRec(j, k) ==
    /\ disk.journal.lines[k][2] = disk.journal.lines[j][2]
    /\ disk.journal.lines[k][3] = disk.journal.lines[j][3]

\* the side a lost-TUID line waits for
LostSide(j) == IF disk.journal.lines[j][2] = -2 THEN M ELSE S

\* the new-message loop has nothing to copy for message src of side 1-t: the
\* message is gone, or flagged deleted while side t is expunged
SourceSkipped(t, src) ==
    \A f \in FlagsOf(mbox[1 - t], src) :
        F_DELETED \in f /\ OP_EXPUNGE \in chan.ops[t]

\* what the journal of a run in progress shows of the lost TUIDs; always
\* says whether the skipped sources are expected to be copied as well
LostLinesFollowed(always) ==
    \A j \in LostLines :
        LET jl == disk.journal.lines
            n  == Len(jl)
            t  == LostSide(j)
        IN /\ jl[j][2] = -2 \/ jl[j][3] = -2
           /\ j = n =>
                 \E i \in LiveSrecs(srecs) :
                     /\ srecs[i].uid = Pair(jl[j][2], jl[j][3])
                     /\ srecs[i].flags = {} /\ srecs[i].tuid = 0
           /\ (/\ ST_SENT_NEW \in svars.state[t]
               /\ always \/ ~SourceSkipped(t, jl[j][(1 - t) + 2])) =>
                 /\ \E k \in (j + 1)..n :
                        /\ jl[k][1] = "#" /\ SameRec(j, k)
                        /\ \A h \in 1..(j - 1) :
                               (jl[h][1] = "#" /\ SameRec(j, h))
                                   => jl[h][4] # jl[k][4]
                 /\ \A k \in (j + 1)..n : ~(jl[k][1] = "+" /\ SameRec(j, k))

\* a step treats the lost TUIDs as said: the journal shows it, and the step
\* that sends the new messages of the placeholder's side fetches the source
\* message for the same record, still at -2, under a TUID that is not the
\* lost one
LostCopied(always) ==
    /\ Journalling' => LostLinesFollowed(always)'
    /\ \A x \in run'.lost :
           (/\ ST_SENT_NEW \in svars'.state[x.t]
            /\ ST_SENT_NEW \notin svars.state[x.t]
            /\ always \/ ~SourceSkipped(x.t, x.src))
               => \E o \in pending' \ pending :
                      /\ o.op = "fetch_msg" /\ o.aux = x.t /\ o.uid = x.src
                      /\ o.srec \in LiveSrecs(srecs')
                      /\ srecs'[o.srec].uid[x.t] = -2
                      /\ srecs'[o.srec].uid[1 - x.t] = x.src
                      /\ srecs'[o.srec].tuid \notin {0, x.tuid}

\* runs that can be killed, of a pull channel that expunges the slave, with
\* users flagging messages deleted between the runs
SpecLost ==
    /\ InitWith({[ChanPull EXCEPT !.ops[S] = @ \cup {OP_EXPUNGE}]})
    /\ [][NextCrash \/ UserDelete]_vars

Replayable(d) ==
    d.journal.ex /\ d.new.ex /\ d.journal.lines # <<>> /\ ~LoadState(d).err

\* what a replay leaves: the live records as a set, and the header values
ReplayedView(L) ==
    [err |-> L.err, recs |-> {L.srecs[i] : i \in LiveSrecs(L.srecs)},
     maxuid |-> L.maxuid, newuid |-> L.newuid, smaxxuid |-> L.smaxxuid,
     uidval |-> L.uidval]

\* C18: for every state file and journal that a run can leave, replaying the
\* journal a second time atop the loaded state succeeds and gives the same
\* set of live records and the same maxuid, newuid, smaxxuid and UIDVALIDITY
\* values as replaying it once
C18_ReplayTwiceSameAsOnce ==
    \A d \in Images :
        Replayable(d) =>
            ReplayedView(ReplayJournal(LoadState(d), d)) = ReplayedView(LoadState(d))

\* runs that can be killed, with mailboxes that are recreated between the
\* runs and so report another UIDVALIDITY
SpecValidity ==
    /\ InitCrash
    /\ [][\/ NextCrash
          \/ /\ run.phase # "running"
             /\ pending = {}
             /\ \E t \in Sides :
                    /\ mbox[t].uidvalidity < MaxValidity
                    /\ mbox' = [mbox EXCEPT ![t].uidvalidity = @ + 1]
             /\ crashDisks' = {}
             /\ UNCHANGED <<chan, disk, lock, procs, svars, srecs, ctx, pending,
                            run>>]_vars

\* a store reports another UIDVALIDITY than the state and the journal record
ValidityChanged ==
    \E t \in Sides :
        /\ LoadState(disk).uidval[t] >= 0
        /\ LoadState(disk).uidval[t] # mbox[t].uidvalidity

\* C20: while a store reports a UIDVALIDITY that differs from the recorded
\* one, a run issues nothing but the two selects and leaves the state file,
\* state.new and the journal as they are, and once both selects are done
\* the run has ended with SYNC_FAIL
C20_ValidityChangeFailsRun ==
    [][(run.phase = "running" /\ ValidityChanged) =>
           /\ \A o \in pending' : o.op = "select"
           /\ disk' = disk
           /\ (pending' = {} /\ ~run'.killed) =>
                  /\ run'.phase = "done" /\ run'.ended = "bail"
                  /\ run'.cbs = 1 /\ run'.cbret = {SYNC_FAIL}]_vars

C20_Witness ==
    /\ run.phase = "done" /\ run.cbret = {SYNC_FAIL}
    /\ ValidityChanged /\ ~LoadState(disk).err

\* runs that can be killed, with state files and journals that get damaged
\* between the runs: a truncated or invalid state header, an invalid state
\* entry, a journal line that does not parse, another journal version, a
\* journal line for a record that does not exist
SpecParse ==
    /\ InitCrash
    /\ [][\/ NextCrash
          \/ /\ run.phase # "running" /\ pending = {}
             /\ ~LoadState(disk).err
             /\ \/ /\ disk.state.ex
                   /\ \E h \in {<<>>, SubSeq(disk.state.hdr, 1, 2)} :
                          disk' = [disk EXCEPT !.state.hdr = h]
                \/ /\ disk.state.ex
                   /\ disk' = [disk EXCEPT !.state.ents = Append(@, <<1>>)]
                \/ /\ disk.journal.ex /\ disk.new.ex /\ disk.journal.lines # <<>>
                   /\ \/ \E ln \in {<<"?", 0, 0, 0>>, <<"*", MaxMsgs + 1, MaxMsgs + 1, 0>>} :
                             disk' = [disk EXCEPT !.journal.lines = Append(@, ln)]
                      \/ disk' = [disk EXCEPT !.journal.lines[1] = <<"1", 0, 0, 0>>]
             /\ crashDisks' = {}
             /\ UNCHANGED <<chan, mbox, lock, procs, svars, srecs, ctx, pending,
                            run>>]_vars

\* the run has not yet read the state
BeforeLoad ==
    /\ run.phase = "running"
    /\ \A t \in Sides : svars.state[t] \subseteq {ST_SELECTED}
    /\ \E t \in Sides : svars.state[t] = {}

\* C21: a run that finds a state file or a journal it cannot parse issues
\* nothing but the two selects, leaves the state file, state.new and the
\* journal as they are, and once both selects are done it has ended with
\* SYNC_FAIL
C21_ParseErrorFailsRun ==
    [][(BeforeLoad /\ LoadState(disk).err) =>
           /\ \A o \in pending' : o.op = "select"
           /\ disk' = disk
           /\ (pending' = {} /\ ~run'.killed) =>
                  /\ run'.phase = "done" /\ run'.ended = "bail"
                  /\ run'.cbs = 1 /\ run'.cbret = {SYNC_FAIL}]_vars

C21_Witness ==
    /\ run.phase = "done" /\ run.ended = "bail" /\ run.cbret = {SYNC_FAIL}
    /\ LoadState(disk).err
    /\ disk.state.ex \/ disk.journal.ex

(***************************************************************************)
(* Runs whose commands fail and whose stores go bad.                       *)
(***************************************************************************)
Failures == {DRV_MSG_BAD, DRV_BOX_BAD}

InitFault == InitWith({ChanPull})

NextFault == StartRun \/ Complete(Failures) \/ CompleteFreed \/ StoreBad \/ Arrive

SpecFault == InitFault /\ [][NextFault]_vars

CancelStarted == check_cancel(Bundle)

\* the run met one of the failures that end a run without a commit
RunFailed ==
    \/ run.ended \in {"bail", "cancel"}
    \/ run.bad[M] \/ run.bad[S]
    \/ run.cancels[M] + run.cancels[S] > 0

\* C4: a run that ends through a load error, lock contention, a UIDVALIDITY
\* mismatch, a bad store or a cancellation leaves the state file as it was
\* when the run started
C4_FailedRunKeepsState ==
    (run.phase = "done" /\ RunFailed) => disk.state = run.start

\* C6: the user callback is invoked exactly once per call of sync_boxes, and
\* no engine callback touches the sync context after it
C6_CallbackOnceThenUntouched ==
    /\ run.cbs <= 1
    /\ run.phase = "done" => run.cbs = 1
    /\ ~run.uaf

\* the ret the run has accumulated, or has passed to the user callback
RunRet == IF run.phase = "done" THEN run.cbret ELSE svars.ret

\* C8: after a DRV_BOX_BAD result of any command, SYNC_FAIL is set in ret and
\* both sides are being cancelled
C8_BoxBadSetsFail ==
    run.boxbad =>
        /\ SYNC_FAIL \in RunRet
        /\ \A t \in Sides : svars.state[t] \cap {ST_SENT_CANCEL, ST_CANCELED} # {}

Counters(sv) ==
    <<sv.new_total, sv.new_done, sv.flags_total, sv.flags_done, sv.trash_total,
      sv.trash_done>>

\* the step delivers the completion of a command other than cancel
CommandCompleted ==
    /\ run.phase = "running"
    /\ run'.n = run.n
    /\ run'.bad = run.bad
    /\ pending \ pending' # {}
    /\ \A o \in pending \ pending' : o.op # "cancel"

\* C9: once cancellation has started, the completion of a command changes no
\* record, counter or phase bit, writes nothing to the journal and issues no
\* further command
C9_CompletionsAreNoOps ==
    [][(CancelStarted /\ CommandCompleted) =>
           /\ srecs' = srecs
           /\ Counters(svars') = Counters(svars)
           /\ svars'.state = svars.state
           /\ disk' = disk
           /\ pending' \subseteq pending]_vars

\* C10: cancel is issued at most once per side and never on a side whose
\* store was reported bad; the teardown runs once, when both sides are
\* CANCELED
C10_CancelIdempotent ==
    /\ \A t \in Sides : run.cancels[t] <= 1
    /\ \A o \in pending : o.op = "cancel" => ~run.bad[o.t]
    /\ run.teardowns <= 1
    /\ (CancelStarted /\ run.teardowns >= 1) =>
           \A t \in Sides : ST_CANCELED \in svars.state[t]

\* C22: the state is loaded at most once in a run, and only when the
\* selects of both sides have completed successfully; from the step in
\* which a select fails the run loads nothing and changes neither the lock
\* file nor the state file, state.new or the journal, and it ends with
\* SYNC_FAIL
C22_LoadAfterBothSelected ==
    [][/\ run'.loads <= 1
       /\ run'.loads > run.loads => \A t \in Sides : run'.sel[t] = DRV_OK
       /\ (\E t \in Sides : run'.sel[t] = DRV_BOX_BAD) =>
              /\ run'.loads = 0 /\ disk' = disk /\ lock' = lock
              /\ run'.phase = "done" => SYNC_FAIL \in run'.cbret]_vars

C22_Witness ==
    /\ run.phase = "done" /\ SYNC_FAIL \in run.cbret
    /\ \E t \in Sides : run.sel[t] = DRV_BOX_BAD /\ run.sel[1 - t] = DRV_OK

\* C25: the callback gets ret = SYNC_OK (no bit set) only from a run that
\* committed the new state; a run that was cancelled or aborted reports a
\* ret with some bit set
C25_OkOnlyIfCommitted ==
    (run.phase = "done" /\ run.cbret = {}) => run.ended = "commit"

(***************************************************************************)
(* Several runs on one channel: the lock protocol of each.                 *)
(***************************************************************************)
\* open( lname, O_WRONLY|O_CREAT )
LOpen(p) ==
    /\ procs[p].pc = "idle"
    /\ procs[p].runs < MaxRuns
    /\ procs' = [procs EXCEPT ![p].pc = "opened", ![p].fd = LockFd(lock),
                              ![p].runs = @ + 1]
    /\ lock' = LockOpen(lock)
    /\ UNCHANGED <<chan, mbox, disk, svars, srecs, ctx, pending, crashDisks, run>>

\* fcntl( lfd, F_SETLK ) succeeds: the run loads the state and works
LSetlk(p) ==
    /\ procs[p].pc = "opened"
    /\ LockFree(lock, procs[p].fd, p)
    /\ procs' = [procs EXCEPT ![p].pc = "locked"]
    /\ lock' = LockSetlk(lock, procs[p].fd, p)
    /\ UNCHANGED <<chan, mbox, disk, svars, srecs, ctx, pending, crashDisks, run>>

\* fcntl( lfd, F_SETLK ) fails: ret = SYNC_FAIL, sync_bail1 closes the descriptor
LRefused(p) ==
    /\ procs[p].pc = "opened"
    /\ ~LockFree(lock, procs[p].fd, p)
    /\ procs' = [procs EXCEPT ![p].pc = "idle", ![p].fd = 0]
    /\ lock' = LockClose(lock, procs[p].fd, p)
    /\ UNCHANGED <<chan, mbox, disk, svars, srecs, ctx, pending, crashDisks, run>>

\* sync_bail: unlink( lname )
LUnlink(p) ==
    /\ procs[p].pc = "locked"
    /\ procs' = [procs EXCEPT ![p].pc = "unlinked"]
    /\ lock' = LockUnlink(lock)
    /\ UNCHANGED <<chan, mbox, disk, svars, srecs, ctx, pending, crashDisks, run>>

\* sync_bail1: close( lfd )
LClose(p) ==
    /\ procs[p].pc = "unlinked"
    /\ procs' = [procs EXCEPT ![p].pc = "idle", ![p].fd = 0]
    /\ lock' = LockClose(lock, procs[p].fd, p)
    /\ UNCHANGED <<chan, mbox, disk, svars, srecs, ctx, pending, crashDisks, run>>

NextLock ==
    \E p \in Procs : LOpen(p) \/ LSetlk(p) \/ LRefused(p) \/ LUnlink(p) \/ LClose(p)

SpecLock == InitFault /\ [][NextLock]_vars

\* C5: at most one run at a time is between its successful lock acquisition
\* and its teardown
C5_OneRunHoldsLock == Cardinality({p \in Procs : procs[p].pc = "locked"}) <= 1


(***************************************************************************)
(* Copies that fail for the message alone.  The drivers may answer          *)
(* fetch_msg, store_msg and set_flags with DRV_MSG_BAD, and a message may   *)
(* arrive whose header has no terminator.                                   *)
(***************************************************************************)
SpecNoGood ==
    /\ InitWith({[ChanPull EXCEPT !.ops = Pair({OP_NEW}, {OP_NEW})]})
    /\ [][\/ StartRun
          \/ Complete({DRV_MSG_BAD})
          \/ /\ run.phase # "running"
             /\ pending = {}
             /\ \E t \in Sides : \E h \in BOOLEAN :
                    /\ mbox[t].uidnext <= MaxMsgs
                    /\ mbox' = [mbox EXCEPT
                           ![t].msgs = Append(@, [MboxMsg(mbox[t].uidnext, {})
                                                     EXCEPT !.hdr = h]),
                           ![t].uidnext = @ + 1]
             /\ crashDisks' = {}
             /\ UNCHANGED <<chan, disk, lock, procs, svars, srecs, ctx, pending,
                            run>>]_vars

\* the journal of image d holds the "-" line of the record r
HasDeadLine(d, r) ==
    /\ d.journal.ex
    /\ \E k \in 1..Len(d.journal.lines) :
           d.journal.lines[k] = <<"-", r.uid[M], r.uid[S], 0>>

\* C23: when the copy of a record fails for the message alone (DRV_MSG_BAD
\* from fetch_msg or store_msg, or a header without terminator), the record
\* becomes DEAD, its "-" line is written to the journal, new_done of the
\* target side goes up by one and no bit of ret is set; a run in which such
\* a failure happened still ends by committing the state with ret 0
C23_CopyFailureKillsRecord ==
    [][/\ \A o \in pending \ pending' : o.srec \in run'.nogood \ run.nogood =>
              /\ \E d \in crashDisks' \cup {disk'} : HasDeadLine(d, srecs[o.srec])
              /\ svars'.new_done[o.aux] = svars.new_done[o.aux] + 1
              /\ svars'.ret = svars.ret
              /\ run'.phase = "running" => srecs'[o.srec].status = {S_DEAD}
       /\ (run'.nogood # {} /\ run'.phase = "done") =>
              /\ run'.ended = "commit"
              /\ run'.cbret = {}
      ]_vars

C23_Witness ==
    /\ Committed
    /\ run.cbret = {}
    /\ run.nogood # {}
    /\ \E t \in Sides : \E k \in 1..Len(mbox[t].msgs) : ~mbox[t].msgs[k].hdr

(***************************************************************************)
(* Trashing and expunging.  Both sides expunge; either the slave has a      *)
(* trash of its own, or the master has one that also takes the slave's new  *)
(* messages.  The drivers may fail any command.                             *)
(***************************************************************************)
SpecTrash ==
    /\ InitWith({[ops |-> Pair({OP_EXPUNGE}, {OP_NEW, OP_FLAGS, OP_EXPUNGE}),
                  stores |-> st, max_messages |-> 0] :
                     st \in {Pair(StoreConf, [StoreConf EXCEPT !.trash = TRUE]),
                             Pair([StoreConf EXCEPT !.trash = TRUE,
                                                    !.trash_remote_new = TRUE],
                                  StoreConf)}})
    /\ [][\/ (run.n < MaxSyncs /\ StartRun)
          \/ Complete(Failures) \/ CompleteFreed \/ Arrive \/ UserDelete]_vars

\* C24: once trash_msg of side t was answered with DRV_MSG_BAD, SYNC_FAIL
\* is set, each side is cancelled (its cancel command is pending or it is
\* marked ST_CANCELED) and no close command is issued for side t
C24_TrashFailureAborts ==
    [][\A t \in Sides : run'.trashbad[t] =>
           /\ SYNC_FAIL \in svars'.ret
           /\ run'.phase = "done" => SYNC_FAIL \in run'.cbret
           /\ \A s \in Sides :
                  \/ ST_CANCELED \in svars'.state[s]
                  \/ \E o \in pending' : o.op = "cancel" /\ o.t = s
           /\ \A o \in pending' : ~(o.op = "close" /\ o.t = t)
           /\ ST_DID_EXPUNGE \notin svars'.state[t]]_vars

C24_Witness ==
    /\ run.phase = "done"
    /\ SYNC_FAIL \in run.cbret
    /\ \E t \in Sides : run.trashbad[t] /\ ST_CLOSED \notin svars.state[t]

\* the counters of sv are drained: every done counter equals its total
Drained(sv) ==
    \A t \in Sides : /\ sv.new_done[t] = sv.new_total[t]
                     /\ sv.flags_done[t] = sv.flags_total[t]
                     /\ sv.trash_done[t] = sv.trash_total[t]

\* C26: the state file is replaced only in a step that leaves both sides
\* ST_CLOSED, and then every done counter equals its total and no copy, flag
\* or trash command is pending; while a run is active no done counter
\* exceeds its total
C26_CommitOnlyWhenDrained ==
    [][/\ (run.phase = "running" /\ (disk'.state # disk.state \/ run'.ended = "commit")) =>
              /\ \A t \in Sides : ST_CLOSED \in svars'.state[t]
              /\ Drained(svars')
              /\ \A o \in pending' : o.op \notin MsgOps
       /\ run'.phase = "running" =>
              \A t \in Sides : /\ svars'.new_done[t] <= svars'.new_total[t]
                               /\ svars'.flags_done[t] <= svars'.flags_total[t]
                               /\ svars'.trash_done[t] <= svars'.trash_total[t]]_vars

C26_Witness ==
    /\ Committed
    /\ ~run.uaf
    /\ Drained(svars)
    /\ \E t \in Sides : svars.trash_total[t] > 0
    /\ \E t \in Sides : svars.flags_total[t] > 0

\* a trash operation for side t is outstanding: trash_msg on t, or the copy
\* of a message of t into the trash of the other side
TrashPending(ops, t) ==
    \E o \in ops : \/ (o.op = "trash_msg" /\ o.t = t)
                    \/ (o.cb = "msg_rtrashed" /\ o.aux = 1 - t)

\* C28: the close command of side t is issued at most once in a run, and
\* only with ST_FOUND_NEW and ST_SENT_TRASH set on t, the flag commands of t
\* all completed and trash_done[t] = trash_total[t]; no message of side t
\* is expunged while a trash operation for side t is outstanding
C28_CloseOnceAfterTrash ==
    [][\A t \in Sides :
           /\ run'.cont.trash[t] <= 1
           /\ Cardinality({o \in pending' : o.op = "close" /\ o.t = t}) <= 1
           /\ (\/ (run'.n = run.n /\ run'.cont.trash[t] > run.cont.trash[t])
               \/ (\E o \in pending' \ pending : o.op = "close" /\ o.t = t)) =>
                  /\ {ST_FOUND_NEW, ST_SENT_FLAGS, ST_SENT_TRASH} \subseteq svars'.state[t]
                  /\ svars'.flags_done[t] = svars'.flags_total[t]
                  /\ svars'.trash_done[t] = svars'.trash_total[t]
                  /\ \A o \in pending' : ~(o.op = "set_flags" /\ o.t = t)
                  /\ ~TrashPending(pending', t)
           /\ Len(mbox'[t].msgs) < Len(mbox[t].msgs) =>
                  /\ \E o \in pending \ pending' : o.op = "close" /\ o.t = t
                  /\ ~TrashPending(pending, t)]_vars

C28_Witness ==
    /\ run.phase = "running"
    /\ \E t \in Sides :
           /\ ST_DID_EXPUNGE \in svars.state[t]
           /\ svars.trash_total[t] > 0
           /\ Len(mbox[t].msgs) < Len(run.mbox0[t].msgs)

\* the lines k of the journal of d that are the line ln
LinesAt(d, ln) == {k \in 1..Len(d.journal.lines) : d.journal.lines[k] = ln}

\* the journal of d holds, in this order, the "+" line of a record with the
\* uids u if the record is new, its "*" line if fl is not empty, and its "#"
\* line with tuid as the last "#" line of the record
CopyJournalled(d, u, new, fl, tuid) ==
    /\ d.journal.ex
    /\ \E k \in LinesAt(d, <<"#", u[M], u[S], tuid>>) :
           /\ \A j \in 1..Len(d.journal.lines) :
                  (j > k /\ d.journal.lines[j][1] = "#") =>
                      <<d.journal.lines[j][2], d.journal.lines[j][3]>> # <<u[M], u[S]>>
           /\ fl # {} => \E j \in LinesAt(d, <<"*", u[M], u[S], FlagsToInt(fl)>>) :
                  /\ j < k
                  /\ new => \E h \in LinesAt(d, <<"+", u[M], u[S], 0>>) : h < j
           /\ new => \E h \in LinesAt(d, <<"+", u[M], u[S], 0>>) : h < k

\* C29: when fetch_msg is dispatched for the copy of a record, the journal
\* already holds, in this order, the record's "+" line if the record is
\* new, its "*" line if the message has flags, and its "#" line with the
\* TUID; the message that store_msg then stores carries the TUID of that
\* "#" line
C29_JournalledBeforeFetch ==
    [][/\ \A o \in pending' \ pending :
              (o.op = "fetch_msg" /\ o.cb = "msg_copied") =>
                  /\ srecs'[o.srec].tuid # 0
                  /\ CopyJournalled(disk', srecs'[o.srec].uid, o.srec > Len(srecs),
                                    o.fl, srecs'[o.srec].tuid)
       /\ \A o \in pending \ pending' :
              (/\ o.op = "store_msg" /\ o.cb = "msg_copied"
               /\ Len(mbox'[o.t].msgs) > Len(mbox[o.t].msgs)) =>
                  LET m == mbox'[o.t].msgs[Len(mbox'[o.t].msgs)]
                  IN /\ m.tuid # 0
                     /\ \E k \in LinesAt(disk, <<"#", srecs[o.srec].uid[M],
                                                  srecs[o.srec].uid[S], m.tuid>>) :
                            \A j \in 1..Len(disk.journal.lines) :
                                (j > k /\ disk.journal.lines[j][1] = "#") =>
                                    <<disk.journal.lines[j][2], disk.journal.lines[j][3]>>
                                        # <<srecs[o.srec].uid[M], srecs[o.srec].uid[S]>>]_vars

C29_Witness ==
    /\ Journalling
    /\ \E k \in 2..(Len(disk.journal.lines) - 1) :
           /\ disk.journal.lines[k - 1][1] = "+"
           /\ disk.journal.lines[k][1] = "*"
           /\ disk.journal.lines[k + 1][1] = "#"
           /\ \E n \in 1..Len(mbox[S].msgs) :
                  mbox[S].msgs[n].tuid = disk.journal.lines[k + 1][4]

\* C30: in every state of a run, a record that is not DEAD and has a TUID
\* has the uid -2 on exactly one side
C30_TuidHasPlaceholder ==
    run.phase = "running" =>
        \A i \in LiveSrecs(srecs) :
            srecs[i].tuid # 0 => Cardinality({t \in Sides : srecs[i].uid[t] = -2}) = 1

(***************************************************************************)
(* Synchronous and asynchronous drivers.  Each side's driver either         *)
(* completes its commands inside the call or from the event loop.  The      *)
(* slave has a trash and both sides expunge.                                *)
(***************************************************************************)
SpecMix ==
    /\ chan = [ops |-> Pair({OP_EXPUNGE}, {OP_NEW, OP_FLAGS, OP_EXPUNGE}),
               stores |-> Pair(StoreConf, [StoreConf EXCEPT !.trash = TRUE]),
               max_messages |-> 0]
    /\ \E up \in BOOLEAN : \E sy \in [Sides -> BOOLEAN] :
           mbox = [t \in Sides |-> [NoMbox EXCEPT !.uidplus = up, !.sync = sy[t]]]
    /\ disk = NoDisk
    /\ lock = NoLock
    /\ procs = [p \in Procs |-> [pc |-> "idle", fd |-> 0, runs |-> 0]]
    /\ svars = InitSvars
    /\ srecs = <<>>
    /\ ctx = Pair(NoCtx, NoCtx)
    /\ pending = {}
    /\ crashDisks = {}
    /\ run = NoRun
    /\ [][StartRun \/ Complete({}) \/ Arrive \/ UserDelete]_vars

\* the phases of a side, with the bit that says all commands were issued
Phases == {"new", "flags", "trash"}

PhaseComplete(sv, ph, t) ==
    CASE ph = "new" -> ST_SENT_NEW \in sv.state[t] /\ sv.new_done[t] = sv.new_total[t]
      [] ph = "flags" -> /\ ST_SENT_FLAGS \in sv.state[t]
                         /\ sv.flags_done[t] = sv.flags_total[t]
      [] ph = "trash" -> /\ ST_SENT_TRASH \in sv.state[t]
                         /\ sv.trash_done[t] = sv.trash_total[t]

\* C27: in a run that is not cancelled the continuation of each phase (new:
\* find_new_msgs or msgs_new_done; flags: the trash dispatch of
\* msgs_flags_set; trash: close or box_closed_p2 in sync_close) runs at most
\* once for each side, only with the phase's SENT bit set and its done
\* counter equal to its total, and exactly once in a run that commits,
\* whether the drivers complete their commands inside the call or later
C27_ContinuationOnce ==
    [][(run'.cancels = Pair(0, 0)) =>
           \A t \in Sides : \A ph \in Phases :
               /\ run'.cont[ph][t] <= 1
               /\ (run'.n = run.n /\ run'.cont[ph][t] > run.cont[ph][t]) =>
                      PhaseComplete(svars', ph, t)
               /\ run'.ended = "commit" => run'.cont[ph][t] = 1]_vars

C27_Witness ==
    /\ Committed
    /\ mbox[M].sync /\ ~mbox[S].sync
    /\ \A t \in Sides : \A ph \in Phases : run.cont[ph][t] = 1
    /\ svars.flags_total[S] > 0
    /\ svars.trash_total[S] > 0

(***************************************************************************)
(* The uids of the records and of the flag commands.                       *)
(***************************************************************************)
\* C31: in every state no record that is not DEAD has both uids in {0, -1}
C31_SomeSideKnown ==
    \A i \in LiveSrecs(srecs) :
        ~(srecs[i].uid[M] \in {0, -1} /\ srecs[i].uid[S] \in {0, -1})

\* C32: every set_flags command the engine has issued names a positive uid
\* of the side it is sent to
C32_SetFlagsOnPositiveUid ==
    \A o \in pending : o.op = "set_flags" => o.uid > 0

(***************************************************************************)
(* The order of the phase bits.                                            *)
(***************************************************************************)
\* C39 as stated: on each side, a bit of the sequence ST_LOADED, ST_SENT_NEW,
\* ST_FOUND_NEW, ST_SENT_FLAGS, ST_SENT_TRASH, ST_CLOSED is set only if every
\* earlier bit of the sequence is set
C39_PhaseBitsInSequence ==
    \A t \in Sides :
        \A b \in {ST_SENT_NEW, ST_FOUND_NEW, ST_SENT_FLAGS, ST_SENT_TRASH, ST_CLOSED} :
            b \in svars.state[t] => ST_LOADED..(b - 1) \subseteq svars.state[t]

\* C39: on each side, a bit of that sequence is set only if every earlier bit
\* is set, except that ST_SENT_FLAGS and ST_SENT_TRASH do not need
\* ST_FOUND_NEW
C39_PhaseBitsInOrder ==
    \A t \in Sides :
        \A b \in {ST_SENT_NEW, ST_FOUND_NEW, ST_SENT_FLAGS, ST_SENT_TRASH, ST_CLOSED} :
            b \in svars.state[t]
                => (ST_LOADED..(b - 1)) \ (IF b \in {ST_SENT_FLAGS, ST_SENT_TRASH}
                                           THEN {ST_FOUND_NEW} ELSE {})
                       \subseteq svars.state[t]

\* a running run has one side with all six bits and the other side with
\* ST_SENT_TRASH while its copies are not yet found
C39_Witness ==
    /\ run.phase = "running"
    /\ \E t \in Sides :
           /\ ST_LOADED..ST_CLOSED \subseteq svars.state[t]
           /\ {ST_SENT_FLAGS, ST_SENT_TRASH} \subseteq svars.state[1 - t]
           /\ ST_FOUND_NEW \notin svars.state[1 - t]

(***************************************************************************)
(* One record per message.                                                 *)
(***************************************************************************)
\* C40: in every state, also of runs that replayed a journal, no two records
\* that are not DEAD have the same positive uid on the same side
C40_UidsUnique ==
    \A i, j \in LiveSrecs(srecs) : \A t \in Sides :
        (i # j /\ srecs[i].uid[t] > 0) => srecs[i].uid[t] # srecs[j].uid[t]

(***************************************************************************)
(* The cap on the slave mailbox.                                           *)
(***************************************************************************)
\* the slave messages of mailboxes mb that do not carry \Deleted
Kept(mb) == {k \in 1..Len(mb[S].msgs) : F_DELETED \notin mb[S].msgs[k].flags}

\* C37: when a run of a channel with MaxMessages N > 0 and New and Flags
\* enabled for the slave commits, no command having failed, and every slave
\* message is unflagged and paired with a master uid by a record of the new
\* state file, at most N slave messages do not carry \Deleted
C37_SlaveWithinCap ==
    [][(/\ RunCommits
        /\ chan.max_messages > 0
        /\ {OP_NEW, OP_FLAGS} \subseteq chan.ops[S]
        /\ \A k \in 1..Len(mbox'[S].msgs) :
               /\ F_FLAGGED \notin mbox'[S].msgs[k].flags
               /\ \E r \in StateRecs(disk'.state) :
                      r.uid[S] = mbox'[S].msgs[k].uid /\ r.uid[M] > 0)
          => Cardinality(Kept(mbox')) <= chan.max_messages]_vars

(***************************************************************************)
(* Runs of a channel with MaxMessages 1 and MaxSize 1 for the slave, after *)
(* a first run has copied the master's k messages.  Since then the user    *)
(* may have flagged the oldest message on one side, the slave may report   *)
(* its oldest message as recent, read or unread, and the slave may hold a  *)
(* message of its own.  Between runs messages of size 1 or 2, flagged or   *)
(* not, arrive on the master, the user marks master messages deleted, and  *)
(* single deleted messages disappear from the slave.                       *)
(***************************************************************************)
SpecCap ==
    /\ chan \in {[ops |-> Pair(x[1], {OP_NEW, OP_RENEW} \cup x[2]),
                  stores |-> Pair(StoreConf, [StoreConf EXCEPT !.max_size = 1]),
                  max_messages |-> 1] :
                     x \in {<<{OP_FLAGS, OP_DELETE}, {OP_FLAGS}>>, <<{}, {}>>}}
    /\ \E k \in 2..MaxMail :
       \E mk \in {<<{}, {}, FALSE>>, <<{F_FLAGGED}, {}, FALSE>>, <<{}, {F_FLAGGED}, FALSE>>,
                  <<{}, {}, TRUE>>, <<{}, {F_SEEN}, TRUE>>} :
       \E own \in BOOLEAN :
        /\ mbox = Pair([NoMbox EXCEPT
                           !.msgs = [j \in 1..k |-> MboxMsg(j, IF j = 1 THEN mk[1] ELSE {})],
                           !.uidnext = k + 1],
                       [NoMbox EXCEPT
                           !.msgs = [j \in 1..k |->
                                        [MboxMsg(j, IF j = 1 THEN mk[2] ELSE {}) EXCEPT
                                            !.tuid = j, !.origin = j,
                                            !.recent = (j = 1 /\ mk[3])]]
                                    \o (IF own THEN <<MboxMsg(k + 1, {})>> ELSE <<>>),
                           !.uidnext = k + (IF own THEN 2 ELSE 1)])
        /\ disk = [NoDisk EXCEPT
                      !.state = [ex |-> TRUE, full |-> TRUE, hdr |-> <<1, k, 1, 0, 0>>,
                                 ents |-> [j \in 1..k |-> <<j, j, <<>>>>]]]
        /\ run = [NoRun EXCEPT !.tuids = k]
    /\ lock = NoLock
    /\ procs = [p \in Procs |-> [pc |-> "idle", fd |-> 0, runs |-> 0]]
    /\ svars = InitSvars
    /\ srecs = <<>>
    /\ ctx = Pair(NoCtx, NoCtx)
    /\ pending = {}
    /\ crashDisks = {}
    /\ [][\/ StartRun
          \/ Complete({})
          \/ /\ run.phase # "running"
             /\ pending = {}
             /\ \/ /\ mbox[M].uidnext <= MaxMail
                   /\ \E sz \in 1..2 : \E fl \in {{}, {F_FLAGGED}} :
                        mbox' = [mbox EXCEPT
                                    ![M].msgs = Append(@, [MboxMsg(mbox[M].uidnext, fl)
                                                              EXCEPT !.size = sz]),
                                    ![M].uidnext = @ + 1]
                \/ \E j \in 1..Len(mbox[M].msgs) :
                      /\ F_DELETED \notin mbox[M].msgs[j].flags
                      /\ mbox' = [mbox EXCEPT ![M].msgs[j].flags = @ \cup {F_DELETED}]
                \/ \E j \in 1..Len(mbox[S].msgs) :
                      /\ F_DELETED \in mbox[S].msgs[j].flags
                      /\ mbox' = [mbox EXCEPT
                                    ![S].msgs = SelectSeq(@, LAMBDA m :
                                                    m.uid # mbox[S].msgs[j].uid)]
             /\ crashDisks' = {}
             /\ UNCHANGED <<chan, disk, lock, procs, svars, srecs, ctx, pending, run>>]_vars

\* the record is in the expiration transition or expired
InExpiration(r) == r.status \cap {S_EXPIRE, S_EXPIRED} # {}

\* C34: for a record with EXPIRE or EXPIRED set, no step issues a set_flags
\* on the master that removes \Deleted while the slave message of the record
\* carries \Deleted
C34_MasterDeletedKept ==
    [][\A o \in pending' \ pending :
           (/\ o.op = "set_flags" /\ o.t = M /\ F_DELETED \in o.df
            /\ o.srec \in 1..Len(srecs)
            /\ InExpiration(srecs[o.srec]))
               => {F_DELETED} \notin
                      {f \cap {F_DELETED} : f \in FlagsOf(mbox[S], srecs[o.srec].uid[S])}]_vars

\* C35: in every step of a run that changes the EXPIRED bit of a record, the
\* record's EXPIRE bit afterwards equals the new EXPIRED bit, and so does the
\* \Deleted flag of the record's slave message
C35_ExpiredFollowsDeleted ==
    [][\A i \in 1..Len(srecs) :
           (/\ i <= Len(srecs')
            /\ run.phase = "running" /\ run'.phase = "running"
            /\ (S_EXPIRED \in srecs[i].status) # (S_EXPIRED \in srecs'[i].status))
               => /\ (S_EXPIRE \in srecs'[i].status) = (S_EXPIRED \in srecs'[i].status)
                  /\ \A f \in FlagsOf(mbox'[S], srecs'[i].uid[S]) :
                         (F_DELETED \in f) = (S_EXPIRED \in srecs'[i].status)]_vars

\* the messages with the uid in the slave mailbox of mb
SlaveMsgs(mb, uid) == {mb[S].msgs[k] : k \in {j \in 1..Len(mb[S].msgs) : mb[S].msgs[j].uid = uid}}

\* record r may be expired: it has a master uid, and its slave message in mb
\* is not flagged once the pending changes are in, and not recent and unseen
Expirable(r, mb) ==
    /\ r.uid[M] > 0
    /\ SlaveMsgs(mb, r.uid[S]) # {}
    /\ \A m \in SlaveMsgs(mb, r.uid[S]) :
           /\ F_FLAGGED \notin (m.flags \cup r.aflags[S]) \ r.dflags[S]
           /\ ~(m.recent /\ F_SEEN \notin m.flags)

\* C36: every step that marks a record with NEXPIRE marks a record with a
\* positive master uid whose slave message is not flagged after the pending
\* flag changes and not both recent and unseen, and every flag command that
\* adds \Deleted on the slave without the master having it is for a record
\* marked so
C36_ExpiresOnlyExpirable ==
    [][/\ \A i \in 1..Len(srecs') :
              (/\ S_NEXPIRE \in srecs'[i].status
               /\ (i > Len(srecs) \/ S_NEXPIRE \notin srecs[i].status))
                  => Expirable(srecs'[i], mbox)
       /\ \A o \in pending' \ pending :
              (/\ o.op = "set_flags" /\ o.t = S /\ o.cb = "flags_set_sync"
               /\ F_DELETED \in o.af
               /\ F_DELETED \notin srecs'[o.srec].aflags[S])
                  => /\ S_NEXPIRE \in srecs'[o.srec].status
                     /\ Expirable(srecs'[o.srec], mbox)]_vars

\* a run expires the second message while it leaves the first one, which is
\* about to be flagged from the master, alone
C36_Witness ==
    \E i, j \in LiveSrecs(srecs) :
        /\ S_NEXPIRE \in srecs[i].status
        /\ S_NEXPIRE \notin srecs[j].status
        /\ srecs[j].uid[S] > 0
        /\ srecs[j].uid[S] < srecs[i].uid[S]
        /\ F_FLAGGED \in srecs[j].aflags[S]
        /\ \E o \in pending :
               o.op = "set_flags" /\ o.t = S /\ o.srec = i /\ F_DELETED \in o.af

\* C38: in the step that sends the new messages to side t, a loaded message
\* of side 1-t that is unpaired with New enabled for t, or paired with uid -1
\* on t with ReNew enabled, and not deleted under Expunge of t, gets a fetch if
\* and only if it is flagged or not larger than MaxSize of t; without a fetch
\* a message that was unpaired has a record with uid -1 on t, in memory or,
\* if the run ends in this step, in the state file
C38_CopiedIffFlaggedOrSmall ==
    [][\A t \in Sides :
           (ST_SENT_NEW \in svars'.state[t] /\ ST_SENT_NEW \notin svars.state[t]) =>
               \A k \in 1..Len(ctx'[1 - t].msgs) :
                   LET u  == ctx'[1 - t].msgs[k].uid
                       m  == mbox[1 - t].msgs[MboxIdx(mbox[1 - t], u)]
                       rs == {i \in LiveSrecs(srecs) : srecs[i].uid[1 - t] = u}
                       fetched == \E o \in pending' \ pending :
                                      /\ o.op = "fetch_msg" /\ o.t = 1 - t
                                      /\ o.uid = u /\ o.aux = t
                   IN (/\ IF rs = {} THEN OP_NEW \in chan.ops[t]
                          ELSE /\ \E i \in rs : srecs[i].uid[t] = -1
                               /\ OP_RENEW \in chan.ops[t]
                       /\ ~(OP_EXPUNGE \in chan.ops[t] /\ F_DELETED \in m.flags))
                          => /\ fetched <=> (\/ F_FLAGGED \in m.flags
                                             \/ m.size <= chan.stores[t].max_size)
                             /\ (~fetched /\ rs = {})
                                   => \/ \E i \in LiveSrecs(srecs') :
                                             /\ srecs'[i].uid[1 - t] = u
                                             /\ srecs'[i].uid[t] = -1
                                      \/ \E r \in StateRecs(disk'.state) :
                                             r.uid[1 - t] = u /\ r.uid[t] = -1]_vars

(***************************************************************************)
(* Runs of a channel with MaxMessages 1 that propagates flags and          *)
(* deletions to the master, after a first run has copied the master's k    *)
(* messages; runs can be killed and mailboxes expunged between runs.       *)
(***************************************************************************)
SpecCapCrash ==
    /\ chan = [ops |-> Pair({OP_FLAGS, OP_DELETE}, {OP_NEW, OP_RENEW, OP_FLAGS}),
               stores |-> Pair(StoreConf, StoreConf), max_messages |-> 1]
    /\ \E k \in 2..MaxMail :
        /\ mbox = Pair([NoMbox EXCEPT !.msgs = [j \in 1..k |-> MboxMsg(j, {})],
                                      !.uidnext = k + 1],
                       [NoMbox EXCEPT !.msgs = [j \in 1..k |->
                                                   [MboxMsg(j, {}) EXCEPT
                                                       !.tuid = j, !.origin = j]],
                                      !.uidnext = k + 1])
        /\ disk = [NoDisk EXCEPT
                      !.state = [ex |-> TRUE, full |-> TRUE, hdr |-> <<1, k, 1, 0, 0>>,
                                 ents |-> [j \in 1..k |-> <<j, j, <<>>>>]]]
        /\ run = [NoRun EXCEPT !.tuids = k]
    /\ lock = NoLock
    /\ procs = [p \in Procs |-> [pc |-> "idle", fd |-> 0, runs |-> 0]]
    /\ svars = InitSvars
    /\ srecs = <<>>
    /\ ctx = Pair(NoCtx, NoCtx)
    /\ pending = {}
    /\ crashDisks = {}
    /\ [][StartRun \/ Complete({}) \/ Kill \/ UserExpunge]_vars

\* C33: for a record with EXPIRE or EXPIRED set, no step issues a set_flags
\* on the master that adds \Deleted, be it because the slave message carries
\* \Deleted or because the slave message is gone
C33_MasterNotDeletedByExpiry ==
    [][\A o \in pending' \ pending :
           (/\ o.op = "set_flags" /\ o.t = M /\ F_DELETED \in o.af
            /\ o.srec \in 1..Len(srecs))
               => ~InExpiration(srecs[o.srec])]_vars

====
